---- MODULE Spec2Model ----
(***************************************************************************)
(* The receipt pool of src/src/pool.rs as a state machine.                 *)
(*                                                                         *)
(* The pool owns a vector of transfers (the spec's "allocations"); commit  *)
(* locks a fee against one transfer and returns the commitment bytes,      *)
(* release consumes such bytes together with the outcome of the query.     *)
(* The caller keeps the commitments: they are recorded in `borrows`, which *)
(* is bookkeeping of the environment and is never read by the pool.        *)
(*                                                                         *)
(* The functions of src/src/voucher.rs, which turn the receipts an indexer *)
(* collected into a voucher, are pure: VoucherSpec builds the receipts     *)
(* data record by record and applies them to it, CombineSpec makes partial *)
(* vouchers of parts of the data and combines them, and RedeemSpec hands   *)
(* the commitments of the pool to receipts_to_voucher.  FormatSpec adds    *)
(* the wire format of src/src/format.rs, and SignSpec the calls whose      *)
(* signature comes with a recovery id the library chose.                   *)
(***************************************************************************)
EXTENDS Integers, Sequences, FiniteSets, TLC

(***************************************************************************)
(* Bounds of the exploration.                                              *)
(***************************************************************************)
MaxSteps == 5           \* calls made on one pool
MaxCollateral == 2      \* collateral of add_transfer and locked_payment of commit
MaxReceipts == 2        \* receipt records in the data given to voucher.rs

(***************************************************************************)
(* Sizes of the wire fields (std::mem::size_of of the field types).        *)
(***************************************************************************)
SizeOfBytes32 == 32
SizeOfU256 == 32
SizeOfReceiptID == 4
SizeOfSignature == 65

\* A u32 does not fit the model checker's integers: a ReceiptID is kept as
\* two 16-bit limbs, value = hi * LimbBase + lo.
LimbBase == 65536
ByteBase == 256

Range(start, end) == [start |-> start, end |-> end]

next_range(prev, size) == Range(prev.end, prev.end + size)

VECTOR_TRANSFER_ID_RANGE == next_range(Range(0, 0), SizeOfBytes32)
PAYMENT_AMOUNT_RANGE == next_range(VECTOR_TRANSFER_ID_RANGE, SizeOfU256)
RECEIPT_ID_RANGE == next_range(PAYMENT_AMOUNT_RANGE, SizeOfReceiptID)
SIGNATURE_RANGE == next_range(RECEIPT_ID_RANGE, SizeOfSignature)
UNLOCKED_PAYMENT_RANGE == next_range(SIGNATURE_RANGE, SizeOfU256)
BORROWED_RECEIPT_LEN == UNLOCKED_PAYMENT_RANGE.end

\* bytes[range] of a 0-based half-open range
Slice(bytes, range) == SubSeq(bytes, range.start + 1, range.end)

\* bytes[start..end]
SliceFromTo(bytes, start, end) == SubSeq(bytes, start + 1, end)

(***************************************************************************)
(* Integer encodings.                                                      *)
(***************************************************************************)
\* byte i (from 1, least significant first) of a value
RECURSIVE byte_of(_, _)
byte_of(value, i) ==
    IF value = 0 THEN 0
    ELSE IF i = 1 THEN value % ByteBase
    ELSE byte_of(value \div ByteBase, i - 1)

\* U256::to_little_endian into a Bytes32
to_le_bytes(value) == [i \in 1..SizeOfU256 |-> byte_of(value, i)]

\* the value of bytes[i..] read least significant byte first
RECURSIVE little_endian_from(_, _)
little_endian_from(bytes, i) ==
    IF i > Len(bytes) THEN 0
    ELSE LET rest == little_endian_from(bytes, i + 1)
         IN  bytes[i] + (IF rest = 0 THEN 0 ELSE ByteBase * rest)

\* U256::from_little_endian
from_little_endian(bytes) == little_endian_from(bytes, 1)

ReceiptIDZero == [hi |-> 0, lo |-> 0]

None == [none |-> TRUE]

\* u32::checked_add(1)
checked_add_1(id) ==
    IF id.lo < LimbBase - 1 THEN [hi |-> id.hi, lo |-> id.lo + 1]
    ELSE IF id.hi < LimbBase - 1 THEN [hi |-> id.hi + 1, lo |-> 0]
    ELSE None

\* u32::to_le_bytes
receipt_id_to_le_bytes(id) ==
    <<id.lo % ByteBase, id.lo \div ByteBase, id.hi % ByteBase, id.hi \div ByteBase>>

\* u32::from_le_bytes
receipt_id_from_le_bytes(bytes) ==
    [hi |-> bytes[3] + ByteBase * bytes[4], lo |-> bytes[1] + ByteBase * bytes[2]]

\* tests::bytes32: the id byte repeated
bytes32(id) == [i \in 1..SizeOfBytes32 |-> id]

(***************************************************************************)
(* Signing.  The digest and the signature are opaque: a digest is          *)
(* determined by the hashed bytes, a signature by key and digest.          *)
(***************************************************************************)
hash_bytes(bytes) == [sha3 |-> bytes]

\* SIGNER.sign_recoverable(..).serialize_compact(): the recovery id and the 64
\* bytes of the signature.  Signing is deterministic; of the 64 bytes the
\* model keeps the pair that determines them, in the first position, and the
\* recovery id is some fixed function of key and digest.
sign_recoverable(message, signer) ==
    [ recovery_id |-> (signer + message.sha3[1]) % 2,
      signature |-> <<[key |-> signer, message |-> message]>>
                      \o [i \in 1..(SizeOfSignature - 2) |-> 0] ]

(***************************************************************************)
(* src/src/voucher.rs: the layout of a receipt record.                     *)
(***************************************************************************)
SizeOfAddress == 20
SizeOfReceiptId == 15

FEE_RANGE == next_range(Range(0, 0), SizeOfU256)
VOUCHER_RECEIPT_ID_RANGE == next_range(FEE_RANGE, SizeOfReceiptId)
VOUCHER_SIGNATURE_RANGE == next_range(VOUCHER_RECEIPT_ID_RANGE, SizeOfSignature)
SIZE == VOUCHER_SIGNATURE_RANGE.end

\* tests::bytes: the id byte repeated N times
bytes_n(id, N) == [i \in 1..N |-> id]

(***************************************************************************)
(* U256 of the voucher side.  Fees run up to 2^256 - 1, so a U256 is kept  *)
(* as its 32 digits to the base 256, the least significant first.          *)
(***************************************************************************)
U256Zero == [i \in 1..SizeOfU256 |-> 0]
U256Max == [i \in 1..SizeOfU256 |-> ByteBase - 1]

\* U256::from(n) of a small number
U256From(n) == [i \in 1..SizeOfU256 |-> byte_of(n, i)]

\* U256::from_big_endian of 32 bytes
from_big_endian(slice) == [i \in 1..SizeOfU256 |-> slice[SizeOfU256 + 1 - i]]

\* prelude::to_be_bytes
to_be_bytes(value) == [i \in 1..SizeOfU256 |-> value[SizeOfU256 + 1 - i]]

\* the digits of a + b from digit i on, given the carry into digit i, and
\* after them the carry out of the last digit
RECURSIVE add_from(_, _, _, _)
add_from(a, b, i, carry) ==
    IF i > SizeOfU256 THEN <<carry>>
    ELSE LET digit == a[i] + b[i] + carry
         IN  <<digit % ByteBase>> \o add_from(a, b, i + 1, digit \div ByteBase)

\* U256::overflowing_add: the sum modulo 2^256 and whether it overflowed
overflowing_add(a, b) ==
    LET digits == add_from(a, b, 1, 0)
    IN  [value |-> SubSeq(digits, 1, SizeOfU256),
         overflow |-> digits[SizeOfU256 + 1] > 0]

\* saturating_add that wraps around
saturating_add_wrapping(a, b) ==
    overflowing_add(a, b).value

\* U256::saturating_add
saturating_add(a, b) ==
    LET sum == overflowing_add(a, b)
    IN  IF sum.overflow THEN U256Max ELSE sum.value

\* a < b of two byte arrays of one length, from byte i on: the order of
\* [u8; N], which compares the first bytes that differ
RECURSIVE array_lt(_, _, _)
array_lt(a, b, i) ==
    IF i > Len(a) THEN FALSE
    ELSE IF a[i] # b[i] THEN a[i] < b[i]
    ELSE array_lt(a, b, i + 1)

(***************************************************************************)
(* Keccak and ECDSA of the voucher side, opaque as above.  The first slot  *)
(* of a signature stands for its first byte and says what determines the   *)
(* 64 bytes: the key, the digest signed, and whether that byte was altered *)
(* after signing.                                                          *)
(***************************************************************************)
keccak256(preimage) == [keccak |-> preimage]

\* the 64 bytes of SECP256K1.sign_ecdsa_recoverable(message, key)
sign_ecdsa(message, key) ==
    <<[key |-> key, message |-> message, altered |-> FALSE]>>
      \o [i \in 1..(SizeOfSignature - 2) |-> 0]

\* prelude::sign: the 64 bytes and the recovery id, 27 or 28
sign(data, signer) ==
    LET message == keccak256(data)
    IN  sign_ecdsa(message, signer) \o <<27 + ((signer + Len(data)) % 2)>>

\* PublicKey::from_secret_key: a public key is named by its secret key
from_secret_key(key) == key

\* secp256k1::Signature::from_compact: r (the first half) and s must be
\* below the group order, which 2^256 - 1 is not
from_compact(compact) ==
    LET half == (SizeOfSignature - 1) \div 2
    IN  IF \A i \in (half + 1)..(2 * half) : compact[i] = ByteBase - 1
        THEN [ok |-> FALSE]
        ELSE [ok |-> TRUE, signature |-> compact]

\* verify that takes a signature over what follows the first 20 bytes of the
\* hashed data, whatever those are in the data that was signed
verify_past_address(message, signature, public_key) ==
    /\ signature = sign_ecdsa(signature[1].message, public_key)
    /\ SubSeq(signature[1].message.keccak, SizeOfAddress + 1,
              Len(signature[1].message.keccak))
         = SubSeq(message.keccak, SizeOfAddress + 1, Len(message.keccak))

\* SECP256K1.verify(message, signature, public_key)
verify(message, signature, public_key) ==
    signature = sign_ecdsa(message, public_key)

(***************************************************************************)
(* src/src/voucher.rs                                                      *)
(***************************************************************************)
Ok(value) == [ok |-> TRUE, value |-> value]
Err(error) == [ok |-> FALSE, error |-> error]

\* Receipts::new that takes data of any length
Receipts_new_any_length(data) ==
    Ok([data |-> data, index |-> 0])

\* Receipts::new
Receipts_new(data) ==
    IF Len(data) % SIZE # 0 THEN Err("InvalidData") ELSE Ok([data |-> data, index |-> 0])

\* Receipts::next, for the receipt at `index`
Receipt(data, index) ==
    LET chunk == SubSeq(data, index * SIZE + 1, Len(data))
    IN  [ fees |-> from_big_endian(Slice(chunk, FEE_RANGE)),
          id |-> Slice(chunk, VOUCHER_RECEIPT_ID_RANGE),
          signature |-> Slice(chunk, VOUCHER_SIGNATURE_RANGE) ]

\* the receipts the iterator yields: next returns None once index * SIZE
\* reaches the length of the data
Receipts(data) == [k \in 1..(Len(data) \div SIZE) |-> Receipt(data, k - 1)]

\* any_unordered that lets equal ids pass
any_descending(receipts) ==
    \E k \in 1..(Len(receipts) - 1) : array_lt(receipts[k + 1].id, receipts[k].id, 1)

\* verify_receipts, lines 140-146: some window of two ids is not ascending
any_unordered(receipts) ==
    \E k \in 1..(Len(receipts) - 1) : ~array_lt(receipts[k].id, receipts[k + 1].id, 1)

\* verify_signatures that stops after the first receipt
verify_signatures_first_only(allocation_id, allocation_signer, receipts, k) ==
    IF k > Len(receipts) THEN Ok(TRUE)
    ELSE LET receipt == receipts[k]
             message == keccak256(allocation_id \o to_be_bytes(receipt.fees)
                                                \o receipt.id)
             signature == from_compact(SubSeq(receipt.signature, 1, SizeOfSignature - 1))
         IN  IF ~signature.ok THEN Err("InvalidData")
             ELSE IF ~verify(message, signature.signature, allocation_signer)
                  THEN Err("InvalidSignature")
             ELSE Ok(TRUE)

\* verify_receipts, lines 149-166, from receipt k on: the error of the first
\* receipt that has one
RECURSIVE verify_signatures(_, _, _, _)
verify_signatures(allocation_id, allocation_signer, receipts, k) ==
    IF k > Len(receipts) THEN Ok(TRUE)
    ELSE LET receipt == receipts[k]
             message == keccak256(allocation_id \o to_be_bytes(receipt.fees)
                                                \o receipt.id)
             signature == from_compact(SubSeq(receipt.signature, 1, SizeOfSignature - 1))
         IN  IF ~signature.ok THEN Err("InvalidData")
             ELSE IF ~verify(message, signature.signature, allocation_signer)
                  THEN Err("InvalidSignature")
             ELSE verify_signatures(allocation_id, allocation_signer, receipts, k + 1)

\* verify_receipts, lines 168-170: the fold of saturating_add from receipt k on
RECURSIVE fold_fees(_, _, _)
fold_fees(receipts, k, sum) ==
    IF k > Len(receipts) THEN sum
    ELSE fold_fees(receipts, k + 1, saturating_add(sum, receipts[k].fees))

\* voucher::verify_receipts
verify_receipts(allocation_id, allocation_signer, data) ==
    IF ~Receipts_new(data).ok THEN Err("InvalidData")
    ELSE LET receipts == Receipts(data)
             signatures == verify_signatures(allocation_id, allocation_signer,
                                             receipts, 1)
             fees == fold_fees(receipts, 1, U256Zero)
         IN  IF any_unordered(receipts) THEN Err("UnorderedReceipts")
             ELSE IF ~signatures.ok THEN signatures
             ELSE IF fees = U256Zero THEN Err("NoValue")
             ELSE Ok(fees)

Voucher(allocation_id, fees, signature) ==
    [allocation_id |-> allocation_id, fees |-> fees, signature |-> signature]

PartialVoucher(voucher, receipt_id_min, receipt_id_max) ==
    [voucher |-> voucher, receipt_id_min |-> receipt_id_min,
     receipt_id_max |-> receipt_id_max]

\* the panic of Option::unwrap on None
Panic == [ok |-> FALSE, error |-> "panic"]

\* voucher::receipts_to_voucher
receipts_to_voucher(allocation_id, allocation_signer, voucher_signer, data) ==
    LET fees == verify_receipts(allocation_id, allocation_signer, data)
    IN  IF ~fees.ok THEN fees
        ELSE LET message == allocation_id \o to_be_bytes(fees.value)
             IN  Ok(Voucher(allocation_id, fees.value, sign(message, voucher_signer)))

\* voucher::receipts_to_partial_voucher
receipts_to_partial_voucher(allocation_id, allocation_signer, voucher_signer, data) ==
    LET fees == verify_receipts(allocation_id, allocation_signer, data)
        receipts == Receipts(data)
    IN  IF ~fees.ok THEN fees
        ELSE IF Len(receipts) = 0 THEN Panic
        ELSE LET receipt_id_min == receipts[1].id
                 receipt_id_max == receipts[Len(receipts)].id
                 message == allocation_id \o to_be_bytes(fees.value)
                              \o receipt_id_min \o receipt_id_max
             IN  Ok(PartialVoucher(
                      Voucher(allocation_id, fees.value, sign(message, voucher_signer)),
                      receipt_id_min, receipt_id_max))

\* combine_partial_vouchers, line 192: the limits of the ranges in a row,
\* min and max of the first, min and max of the second, and so on
range_limits(list) ==
    [k \in 1..(2 * Len(list)) |->
       IF k % 2 = 1 THEN list[(k + 1) \div 2].receipt_id_min
       ELSE list[k \div 2].receipt_id_max]

\* all_ascending that looks at the two limits of each range only, not from one
\* range to the next
all_ascending_within(limits) ==
    \A k \in 1..(Len(limits) - 1) :
       k % 2 = 1 => array_lt(limits[k], limits[k + 1], 1)

\* combine_partial_vouchers, lines 193-194: tuple_windows().all(|(a, b)| a < b)
all_ascending(limits) ==
    \A k \in 1..(Len(limits) - 1) : array_lt(limits[k], limits[k + 1], 1)

\* verify_partial_signatures that leaves the limits of the range out of the
\* message
verify_partial_signatures_unranged(allocation_id, partial_voucher_signer, list, k) ==
    IF \A j \in k..Len(list) :
          LET signature == list[j].voucher.signature
              signed == signature[1].message.keccak
          IN  /\ SubSeq(signature, 1, SizeOfSignature - 1)
                   = sign_ecdsa(signature[1].message, partial_voucher_signer)
              /\ SubSeq(signed, 1, SizeOfAddress + SizeOfU256)
                   = allocation_id \o to_be_bytes(list[j].voucher.fees)
    THEN Ok(TRUE)
    ELSE Err("InvalidSignature")

\* combine_partial_vouchers, lines 201-217, from partial voucher k on: the
\* error of the first that has one
RECURSIVE verify_partial_signatures(_, _, _, _)
verify_partial_signatures(allocation_id, partial_voucher_signer, list, k) ==
    IF k > Len(list) THEN Ok(TRUE)
    ELSE LET partial_voucher == list[k]
             message == keccak256(allocation_id
                                    \o to_be_bytes(partial_voucher.voucher.fees)
                                    \o partial_voucher.receipt_id_min
                                    \o partial_voucher.receipt_id_max)
             signature == from_compact(SubSeq(partial_voucher.voucher.signature,
                                              1, SizeOfSignature - 1))
         IN  IF ~signature.ok THEN Err("InvalidData")
             ELSE IF ~verify(message, signature.signature, partial_voucher_signer)
                  THEN Err("InvalidSignature")
             ELSE verify_partial_signatures(allocation_id, partial_voucher_signer,
                                            list, k + 1)

\* combine_partial_vouchers, lines 219-222: the fold of saturating_add from
\* partial voucher k on
RECURSIVE fold_partial_fees(_, _, _)
fold_partial_fees(list, k, sum) ==
    IF k > Len(list) THEN sum
    ELSE fold_partial_fees(list, k + 1, saturating_add(sum, list[k].voucher.fees))

\* voucher::combine_partial_vouchers
combine_partial_vouchers(allocation_id, voucher_signer, list) ==
    IF Len(list) = 0 THEN Err("NoValue")
    ELSE IF ~all_ascending(range_limits(list)) THEN Err("UnorderedPartialVouchers")
    ELSE LET partial_voucher_signer == from_secret_key(voucher_signer)
             signatures == verify_partial_signatures(allocation_id,
                               partial_voucher_signer, list, 1)
             fees == fold_partial_fees(list, 1, U256Zero)
         IN  IF ~signatures.ok THEN signatures
             ELSE IF fees = U256Zero THEN Err("NoValue")
             ELSE LET message == allocation_id \o to_be_bytes(fees)
                  IN  Ok(Voucher(allocation_id, fees, sign(message, voucher_signer)))

(***************************************************************************)
(* Inputs.                                                                 *)
(***************************************************************************)
TransferIds == {bytes32(1), bytes32(2)}

\* "Each transfer must have a globally unique ppk pair": the caller has one
\* secret key per transfer id, named by the byte of the id
SignerOf(vector_transfer_id) == vector_transfer_id[1]
Collaterals == 0..MaxCollateral
LockedPayments == 0..MaxCollateral
QueryStatus == {"Success", "Failure", "Unknown"}

VARIABLES
    transfers,  \* ReceiptPool::transfers, a Vec<Transfer>
    borrows,    \* the commitments the caller holds, in order of issue
    installed,  \* what the caller knows of each transfer id it has installed
    last,       \* the call that led to this state and what it returned
    steps,      \* calls made so far
    data,       \* the receipts data of the voucher functions
    returned,   \* the call of a voucher function on `data` and its result
    partial_vouchers  \* the partial vouchers made of parts of `data`

pool_vars == <<transfers, borrows, installed, last, steps>>
voucher_vars == <<data, returned, partial_vouchers>>
vars == <<transfers, borrows, installed, last, steps, data, returned, partial_vouchers>>


(***************************************************************************)
(* Vec helpers.  Vec indexes from 0, sequences from 1.                     *)
(***************************************************************************)
\* Vec::swap_remove(index): the last element takes the place of the removed one
swap_remove(vec, index) ==
    LET n == Len(vec)
    IN  IF index = n THEN SubSeq(vec, 1, n - 1)
        ELSE [i \in 1..(n - 1) |-> IF i = index THEN vec[n] ELSE vec[i]]

\* Iterator::position: the first index whose transfer has the id, 0 for None
RECURSIVE position(_, _, _)
position(vec, vector_transfer_id, i) ==
    IF i > Len(vec) THEN 0
    ELSE IF vec[i].vector_transfer_id = vector_transfer_id THEN i
    ELSE position(vec, vector_transfer_id, i + 1)

(***************************************************************************)
(* ReceiptPool                                                             *)
(***************************************************************************)
Transfer(signer, collateral, vector_transfer_id) ==
    [ signer |-> signer,
      collateral |-> collateral,
      receipt_cache |-> <<>>,
      prev_receipt_id |-> ReceiptIDZero,
      vector_transfer_id |-> vector_transfer_id ]

PooledReceipt(unlocked_payment, receipt_id) ==
    [unlocked_payment |-> unlocked_payment, receipt_id |-> receipt_id]

\* ReceiptPool::new
new == <<>>

\* add_transfer without the look for the id
add_transfer_unchecked(pool, signer, collateral, vector_transfer_id) ==
    Append(pool, Transfer(signer, collateral, vector_transfer_id))

\* ReceiptPool::add_transfer: the pool after the call
add_transfer(pool, signer, collateral, vector_transfer_id) ==
    IF \E i \in 1..Len(pool) : pool[i].vector_transfer_id = vector_transfer_id
    THEN pool
    ELSE Append(pool, Transfer(signer, collateral, vector_transfer_id))

\* remove_transfer that drops the last transfer in place of the one found
remove_transfer_pop(pool, vector_transfer_id) ==
    LET index == position(pool, vector_transfer_id, 1)
    IN  IF index # 0 THEN SubSeq(pool, 1, Len(pool) - 1) ELSE pool

\* ReceiptPool::remove_transfer: the pool after the call
remove_transfer(pool, vector_transfer_id) ==
    LET index == position(pool, vector_transfer_id, 1)
    IN  IF index # 0 THEN swap_remove(pool, index) ELSE pool

\* the sum of the numbers of a sequence from element i on
RECURSIVE sum_from(_, _)
sum_from(numbers, i) ==
    IF i > Len(numbers) THEN 0 ELSE numbers[i] + sum_from(numbers, i + 1)

\* the unlocked payments of the receipts of one cache
unlocked_payments(receipt_cache) ==
    sum_from([r \in 1..Len(receipt_cache) |-> receipt_cache[r].unlocked_payment], 1)

\* ReceiptPool::known_unlocked_payments
known_unlocked_payments(pool) ==
    sum_from([i \in 1..Len(pool) |-> unlocked_payments(pool[i].receipt_cache)], 1)

\* ReceiptPool::has_collateral_for
has_collateral_for(pool, locked_payment) ==
    \E i \in 1..Len(pool) : pool[i].collateral >= locked_payment

\* select_transfer taking the most collateral instead of the least
RECURSIVE select_transfer_from_most(_, _, _, _)
select_transfer_from_most(pool, locked_payment, i, selected) ==
    IF i > Len(pool) THEN selected
    ELSE IF pool[i].collateral < locked_payment
         THEN select_transfer_from_most(pool, locked_payment, i + 1, selected)
    ELSE IF selected = 0
         THEN select_transfer_from_most(pool, locked_payment, i + 1, i)
    ELSE IF pool[selected].collateral < pool[i].collateral
         THEN select_transfer_from_most(pool, locked_payment, i + 1, i)
    ELSE select_transfer_from_most(pool, locked_payment, i + 1, selected)

\* select_transfer that takes every transfer to have the collateral
RECURSIVE select_transfer_from_any(_, _, _, _)
select_transfer_from_any(pool, locked_payment, i, selected) ==
    IF i > Len(pool) THEN selected
    ELSE IF selected = 0
         THEN select_transfer_from_any(pool, locked_payment, i + 1, i)
    ELSE IF pool[selected].collateral > pool[i].collateral
         THEN select_transfer_from_any(pool, locked_payment, i + 1, i)
    ELSE select_transfer_from_any(pool, locked_payment, i + 1, selected)

\* the loop of select_transfer from transfer i on, `selected` being the index
\* selected so far (0 for None)
RECURSIVE select_transfer_from(_, _, _, _)
select_transfer_from(pool, locked_payment, i, selected) ==
    IF i > Len(pool) THEN selected
    ELSE IF pool[i].collateral < locked_payment
         THEN select_transfer_from(pool, locked_payment, i + 1, selected)
    ELSE IF selected = 0
         THEN select_transfer_from(pool, locked_payment, i + 1, i)
    ELSE IF pool[selected].collateral > pool[i].collateral
         THEN select_transfer_from(pool, locked_payment, i + 1, i)
    ELSE select_transfer_from(pool, locked_payment, i + 1, selected)

\* ReceiptPool::select_transfer: the index of the selected transfer, 0 for None
select_transfer(pool, locked_payment) ==
    select_transfer_from(pool, locked_payment, 1, 0)

\* transfer_by_id_mut falling back to the first transfer
transfer_by_id_mut_or_first(pool, vector_transfer_id) ==
    LET found == position(pool, vector_transfer_id, 1)
    IN  IF found = 0 /\ Len(pool) > 0 THEN 1 ELSE found

\* ReceiptPool::transfer_by_id_mut: the index of the transfer, 0 for None
transfer_by_id_mut(pool, vector_transfer_id) ==
    position(pool, vector_transfer_id, 1)

InsufficientCollateral == "InsufficientCollateral"

\* take_receipt that leaves the receipt it takes in the cache
take_receipt_keeps_cached(transfer, index) ==
    IF Len(transfer.receipt_cache) = 0
    THEN LET receipt_id == checked_add_1(transfer.prev_receipt_id)
         IN  IF receipt_id = None
             THEN [err |-> TRUE, transfer |-> transfer]
             ELSE [ err |-> FALSE,
                    transfer |-> [transfer EXCEPT !.prev_receipt_id = receipt_id],
                    receipt |-> PooledReceipt(0, receipt_id) ]
    ELSE [ err |-> FALSE,
           transfer |-> transfer,
           receipt |-> transfer.receipt_cache[index + 1] ]

\* take_receipt that mints a receipt whatever the cache holds
take_receipt_minting(transfer, index) ==
    LET receipt_id == checked_add_1(transfer.prev_receipt_id)
    IN  IF receipt_id = None
        THEN [err |-> TRUE, transfer |-> transfer]
        ELSE [ err |-> FALSE,
               transfer |-> [transfer EXCEPT !.prev_receipt_id = receipt_id],
               receipt |-> PooledReceipt(0, receipt_id) ]

\* commit, lines 181-202: the receipt the commitment is written on and the
\* transfer it leaves behind; `index` is the draw of rng().gen_range.
\* [err |-> TRUE] when the ids have run out.
take_receipt(transfer, index) ==
    IF Len(transfer.receipt_cache) = 0
    THEN LET receipt_id == checked_add_1(transfer.prev_receipt_id)
         IN  IF receipt_id = None
             THEN [err |-> TRUE, transfer |-> transfer]
             ELSE [ err |-> FALSE,
                    transfer |-> [transfer EXCEPT !.prev_receipt_id = receipt_id],
                    receipt |-> PooledReceipt(0, receipt_id) ]
    ELSE [ err |-> FALSE,
           transfer |-> [transfer EXCEPT
                           !.receipt_cache = swap_remove(@, index + 1)],
           receipt |-> transfer.receipt_cache[index + 1] ]

\* commitment_bytes that leaves what was unlocked before out of the payment
\* amount
commitment_bytes_locked_only(transfer, receipt, locked_payment) ==
    LET payment_amount == locked_payment
        dest == transfer.vector_transfer_id
                  \o to_le_bytes(payment_amount)
                  \o receipt_id_to_le_bytes(receipt.receipt_id)
        signed_data == SliceFromTo(dest, PAYMENT_AMOUNT_RANGE.start, RECEIPT_ID_RANGE.end)
        message == hash_bytes(signed_data)
        signed == sign_recoverable(message, transfer.signer)
    IN  dest \o signed.signature \o <<27 + (signed.recovery_id % 2)>>
             \o to_le_bytes(receipt.unlocked_payment)

\* commit, lines 204-240: the bytes written for the receipt
commitment_bytes(transfer, receipt, locked_payment) ==
    LET payment_amount == receipt.unlocked_payment + locked_payment
        dest == transfer.vector_transfer_id
                  \o to_le_bytes(payment_amount)
                  \o receipt_id_to_le_bytes(receipt.receipt_id)
        signed_data == SliceFromTo(dest, PAYMENT_AMOUNT_RANGE.start, RECEIPT_ID_RANGE.end)
        message == hash_bytes(signed_data)
        signed == sign_recoverable(message, transfer.signer)
        recovery_id == CASE signed.recovery_id = 0 -> 27
                         [] signed.recovery_id = 1 -> 28
                         [] signed.recovery_id = 27 -> 27
                         [] signed.recovery_id = 28 -> 28
    IN  dest \o signed.signature \o <<recovery_id>>
             \o to_le_bytes(receipt.unlocked_payment)

\* the debit with the sign wrong
debit_adds(transfer, locked_payment) ==
    [transfer EXCEPT !.collateral = @ + locked_payment]

\* transfer.collateral -= locked_payment
debit(transfer, locked_payment) ==
    [transfer EXCEPT !.collateral = @ - locked_payment]

\* ReceiptPool::commit: the pool after the call and the value returned
commit(pool, locked_payment, index) ==
    LET selected == select_transfer(pool, locked_payment)
    IN  IF selected = 0
        THEN [pool |-> pool, ok |-> FALSE, value |-> InsufficientCollateral]
        ELSE LET debited == debit(pool[selected], locked_payment)
                 taken == take_receipt(debited, index)
             IN  IF taken.err
                 THEN [ pool |-> [pool EXCEPT ![selected] = taken.transfer],
                        ok |-> FALSE, value |-> InsufficientCollateral ]
                 ELSE [ pool |-> [pool EXCEPT ![selected] = taken.transfer],
                        ok |-> TRUE,
                        value |-> commitment_bytes(taken.transfer, taken.receipt,
                                                   locked_payment) ]

\* settle with the destinations of Success and Failure exchanged
settle_arms_swapped(transfer, receipt, locked_payment, status) ==
    IF status = "Success"
    THEN [transfer EXCEPT !.collateral = @ + locked_payment,
                          !.receipt_cache = Append(@, receipt)]
    ELSE IF status = "Failure"
    THEN [transfer EXCEPT !.receipt_cache =
            Append(@, [receipt EXCEPT !.unlocked_payment = @ + locked_payment])]
    ELSE transfer

\* settle that takes Unknown for Failure
settle_unknown_as_failure(transfer, receipt, locked_payment, status) ==
    IF status \in {"Failure", "Unknown"}
    THEN [transfer EXCEPT !.collateral = @ + locked_payment,
                          !.receipt_cache = Append(@, receipt)]
    ELSE [transfer EXCEPT !.receipt_cache =
            Append(@, [receipt EXCEPT !.unlocked_payment = @ + locked_payment])]

\* release, lines 264-277: the transfer after the funds went to their destination
settle(transfer, receipt, locked_payment, status) ==
    IF status = "Failure"
    THEN [transfer EXCEPT !.collateral = @ + locked_payment,
                          !.receipt_cache = Append(@, receipt)]
    ELSE IF status = "Success"
    THEN [transfer EXCEPT !.receipt_cache =
            Append(@, [receipt EXCEPT !.unlocked_payment = @ + locked_payment])]
    ELSE transfer

\* release that takes the whole payment amount for the locked payment
release_whole_amount(pool, bytes, status) ==
    LET vector_transfer_id == Slice(bytes, VECTOR_TRANSFER_ID_RANGE)
        found == position(pool, vector_transfer_id, 1)
    IN  IF found = 0 THEN pool
        ELSE LET payment_amount == from_little_endian(Slice(bytes, PAYMENT_AMOUNT_RANGE))
                 unlocked_payment == from_little_endian(Slice(bytes, UNLOCKED_PAYMENT_RANGE))
                 receipt == PooledReceipt(unlocked_payment,
                              receipt_id_from_le_bytes(Slice(bytes, RECEIPT_ID_RANGE)))
             IN  [pool EXCEPT ![found] =
                    IF status = "Failure"
                    THEN [@ EXCEPT !.collateral = @ + payment_amount,
                                   !.receipt_cache = Append(@, receipt)]
                    ELSE IF status = "Success"
                    THEN [@ EXCEPT !.receipt_cache =
                            Append(@, [receipt EXCEPT !.unlocked_payment = payment_amount])]
                    ELSE @]

\* ReceiptPool::release: the pool after the call
release(pool, bytes, status) ==
    LET vector_transfer_id == Slice(bytes, VECTOR_TRANSFER_ID_RANGE)
        found == transfer_by_id_mut(pool, vector_transfer_id)
    IN  IF found = 0 THEN pool
        ELSE LET payment_amount == from_little_endian(Slice(bytes, PAYMENT_AMOUNT_RANGE))
                 unlocked_payment == from_little_endian(Slice(bytes, UNLOCKED_PAYMENT_RANGE))
                 locked_payment == payment_amount - unlocked_payment
                 receipt == PooledReceipt(unlocked_payment,
                              receipt_id_from_le_bytes(Slice(bytes, RECEIPT_ID_RANGE)))
             IN  [pool EXCEPT ![found] = settle(@, receipt, locked_payment, status)]


(***************************************************************************)
(* The caller.  It keeps every commitment commit returned, with what it    *)
(* asked for, and hands commitments back to release.                       *)
(***************************************************************************)
Borrow(bytes, receipt, locked_payment) ==
    [ bytes |-> bytes,                \* what commit returned
      locked_payment |-> locked_payment,  \* what the caller asked for
      receipt |-> receipt,            \* the receipt the commitment was written on
      released |-> 0,                 \* calls of release with these bytes
      status |-> "Locked",            \* the outcome last given to release
      unknown |-> FALSE,              \* it was released as Unknown at some time
      forfeited |-> FALSE ]           \* its transfer was removed while it was out

\* the transfer id a commitment names
IdOf(borrow) == Slice(borrow.bytes, VECTOR_TRANSFER_ID_RANGE)

\* a call, its arguments (those it has) and whether it returned without error
Called(op, ok, id, amount, k) ==
    [op |-> op, ok |-> ok, id |-> id, amount |-> amount, k |-> k]

\* what the caller remembers of a transfer id: "never" installed, installed
\* "once" with this collateral and in the pool since, or "removed" at some time
Installed(state, collateral) == [state |-> state, collateral |-> collateral]

\* no voucher function has been called on the data
NoCall == [op |-> "none"]

\* one more call on the pool
Step ==
    /\ steps < MaxSteps
    /\ steps' = steps + 1
    /\ UNCHANGED voucher_vars

Init ==
    /\ transfers = new
    /\ borrows = <<>>
    /\ installed = [id \in TransferIds |-> Installed("never", 0)]
    /\ last = Called("new", TRUE, <<>>, 0, 0)
    /\ steps = 0
    /\ data = <<>>
    /\ returned = NoCall
    /\ partial_vouchers = <<>>

AddTransfer(signer, collateral, vector_transfer_id) ==
    /\ Step
    /\ transfers' = add_transfer(transfers, signer, collateral, vector_transfer_id)
    /\ installed' = [installed EXCEPT ![vector_transfer_id] =
                        IF transfers' = transfers THEN @
                        ELSE IF @.state = "never" THEN Installed("once", collateral)
                        ELSE Installed("removed", 0)]
    /\ last' = Called("add_transfer", TRUE, vector_transfer_id, collateral, 0)
    /\ UNCHANGED borrows

\* the borrows that are out for a transfer when it is removed are marked
RemoveTransfer(vector_transfer_id) ==
    /\ Step
    /\ transfers' = remove_transfer(transfers, vector_transfer_id)
    /\ borrows' = [k \in 1..Len(borrows) |->
                     IF /\ IdOf(borrows[k]) = vector_transfer_id
                        /\ borrows[k].released = 0
                        /\ transfers' # transfers
                     THEN [borrows[k] EXCEPT !.forfeited = TRUE]
                     ELSE borrows[k]]
    /\ installed' = [installed EXCEPT ![vector_transfer_id] =
                        IF transfers' = transfers THEN @
                        ELSE Installed("removed", 0)]
    /\ last' = Called("remove_transfer", TRUE, vector_transfer_id, 0, 0)

\* the draws rng().gen_range(0..receipts.len()) can make for the transfer that
\* a commit of locked_payment selects
Draws(pool, locked_payment) ==
    LET selected == select_transfer(pool, locked_payment)
    IN  IF selected = 0 \/ Len(pool[selected].receipt_cache) = 0 THEN {0}
        ELSE 0..(Len(pool[selected].receipt_cache) - 1)

Commit(locked_payment, index) ==
    LET result == commit(transfers, locked_payment, index)
        selected == select_transfer(transfers, locked_payment)
    IN  /\ Step
        /\ transfers' = result.pool
        /\ UNCHANGED installed
        /\ IF result.ok
           THEN LET receipt == take_receipt(transfers[selected], index).receipt
                IN  /\ borrows' = Append(borrows,
                          Borrow(result.value, receipt, locked_payment))
                    /\ last' = Called("commit", TRUE,
                                      transfers[selected].vector_transfer_id,
                                      locked_payment, Len(borrows) + 1)
           ELSE /\ borrows' = borrows
                /\ last' = Called("commit", FALSE, <<>>, locked_payment, 0)

Release(k, status) ==
    /\ Step
    /\ Len(borrows[k].bytes) = BORROWED_RECEIPT_LEN    \* the assert_eq of release
    /\ transfers' = release(transfers, borrows[k].bytes, status)
    /\ borrows' = [borrows EXCEPT ![k].released = @ + 1, ![k].status = status,
                                  ![k].unknown = @ \/ status = "Unknown"]
    /\ UNCHANGED installed
    /\ last' = Called("release", TRUE, IdOf(borrows[k]), 0, k)

\* u32::MAX - 1
ReceiptIDLastButOne == [hi |-> LimbBase - 1, lo |-> LimbBase - 2]

\* Calls of commit(0) in a row, as many as it takes to mint the last receipt id
\* but one, whose commitments the caller throws away.  Each call selects the
\* same transfer (its collateral does not change) and, its cache being empty,
\* mints the next receipt id; a receipt id has 32 bits, so the calls are taken
\* in one step.
CommitBurst ==
    LET selected == select_transfer(transfers, 0)
    IN  /\ Step
        /\ selected # 0
        /\ Len(transfers[selected].receipt_cache) = 0
        /\ transfers[selected].prev_receipt_id.hi < LimbBase - 1
        /\ transfers' = [transfers EXCEPT
                           ![selected].prev_receipt_id = ReceiptIDLastButOne]
        /\ last' = Called("commit_burst", TRUE, transfers[selected].vector_transfer_id,
                          0, 0)
        /\ UNCHANGED <<borrows, installed>>

Next ==
    \/ \E collateral \in Collaterals, id \in TransferIds :
          AddTransfer(SignerOf(id), collateral, id)
    \/ \E id \in TransferIds : RemoveTransfer(id)
    \/ \E locked_payment \in LockedPayments :
          \E index \in Draws(transfers, locked_payment) : Commit(locked_payment, index)
    \/ \E k \in 1..Len(borrows), status \in QueryStatus : Release(k, status)
    \/ CommitBurst

Spec == Init /\ [][Next]_vars

(***************************************************************************)
(* The indexer's side: receipts are collected into `data` and handed to    *)
(* the functions of voucher.rs.                                            *)
(***************************************************************************)
\* tests::test_signer, the key that signs the receipts
test_signer == 1

Allocations == {bytes_n(1, SizeOfAddress), bytes_n(2, SizeOfAddress)}
Keys == {test_signer, test_signer + 1}
VoucherSigners == {1}
Fees == {U256Zero, U256From(1), U256Max}

\* the ReceiptId whose 15 bytes read n, the most significant byte first
receipt_id(n) == [i \in 1..SizeOfReceiptId |-> byte_of(n, SizeOfReceiptId + 1 - i)]

ReceiptIds == {receipt_id(1), receipt_id(2), receipt_id(ByteBase)}

\* the record of a receipt as tests::receipts_from_borrows cuts it out of a
\* commitment: fee, receipt id, and the signature over allocation id, fee and
\* receipt id
signed_receipt(allocation_id, fee, id, key) ==
    to_be_bytes(fee) \o id \o sign(allocation_id \o to_be_bytes(fee) \o id, key)

\* the number of whole records in the data
Count(bytes) == Len(bytes) \div SIZE

\* the data is made of whole records and their signatures are as they were
\* made
Pristine(bytes) ==
    /\ Len(bytes) % SIZE = 0
    /\ \A k \in 1..Count(bytes) :
          LET signature == Receipt(bytes, k - 1).signature
          IN  signature = sign(signature[1].message.keccak, signature[1].key)

\* verify_receipts accepts the data for some allocation and key
Acceptable(bytes) ==
    \E allocation_id \in Allocations, key \in Keys :
       verify_receipts(allocation_id, from_secret_key(key), bytes).ok

\* the data with records k and k + 1 in each other's place
swapped(bytes, k) ==
    SubSeq(bytes, 1, (k - 1) * SIZE)
      \o SubSeq(bytes, k * SIZE + 1, (k + 1) * SIZE)
      \o SubSeq(bytes, (k - 1) * SIZE + 1, k * SIZE)
      \o SubSeq(bytes, (k + 1) * SIZE + 1, Len(bytes))

\* the place in the data of byte `offset` of the signature of record k
SignatureByte(k, offset) == (k - 1) * SIZE + VOUCHER_SIGNATURE_RANGE.start + offset + 1

\* the data with that byte changed to another value
altered(bytes, k, offset) ==
    [bytes EXCEPT ![SignatureByte(k, offset)] =
       IF offset = 0 THEN [@ EXCEPT !.altered = TRUE] ELSE (@ + 1) % ByteBase]

Returned(op, allocation_id, allocation_signer, result) ==
    [op |-> op, allocation_id |-> allocation_id,
     allocation_signer |-> allocation_signer, result |-> result]

\* a receipt is added to the data
PushReceipt ==
    /\ returned = NoCall
    /\ Count(data) < MaxReceipts
    /\ Pristine(data)
    /\ \E allocation_id \in Allocations, fee \in Fees, id \in ReceiptIds :
          data' = data \o signed_receipt(allocation_id, fee, id, test_signer)
    /\ UNCHANGED <<returned, partial_vouchers, pool_vars>>

\* a byte too many
AppendByte ==
    /\ returned = NoCall
    /\ Pristine(data)
    /\ data' = Append(data, 0)
    /\ UNCHANGED <<returned, partial_vouchers, pool_vars>>

\* a byte too few
DropLastByte ==
    /\ returned = NoCall
    /\ Count(data) > 0
    /\ Pristine(data)
    /\ data' = SubSeq(data, 1, Len(data) - 1)
    /\ UNCHANGED <<returned, partial_vouchers, pool_vars>>

\* two records next to each other change places
SwapAdjacent ==
    /\ returned = NoCall
    /\ Count(data) > 1
    /\ Pristine(data)
    /\ \E k \in 1..(Count(data) - 1) : data' = swapped(data, k)
    /\ UNCHANGED <<returned, partial_vouchers, pool_vars>>

\* one byte of one signature of data that would be accepted is changed
AlterSignatureByte ==
    /\ returned = NoCall
    /\ Count(data) > 0
    /\ Pristine(data)
    /\ Acceptable(data)
    /\ \E k \in 1..Count(data), offset \in 0..(SizeOfSignature - 1) :
          data' = altered(data, k, offset)
    /\ UNCHANGED <<returned, partial_vouchers, pool_vars>>

VerifyReceipts ==
    /\ returned = NoCall
    /\ \E allocation_id \in Allocations, key \in Keys :
          LET allocation_signer == from_secret_key(key)
          IN  returned' = Returned("verify_receipts", allocation_id, allocation_signer,
                             verify_receipts(allocation_id, allocation_signer, data))
    /\ UNCHANGED <<data, partial_vouchers, pool_vars>>

ReceiptsToVoucher ==
    /\ returned = NoCall
    /\ \E allocation_id \in Allocations, key \in Keys, voucher_signer \in VoucherSigners :
          LET allocation_signer == from_secret_key(key)
          IN  returned' = Returned("receipts_to_voucher", allocation_id,
                             allocation_signer,
                             receipts_to_voucher(allocation_id, allocation_signer,
                                                 voucher_signer, data))
    /\ UNCHANGED <<data, partial_vouchers, pool_vars>>

ReceiptsToPartialVoucher ==
    /\ returned = NoCall
    /\ \E allocation_id \in Allocations, key \in Keys, voucher_signer \in VoucherSigners :
          LET allocation_signer == from_secret_key(key)
          IN  returned' = Returned("receipts_to_partial_voucher", allocation_id,
                             allocation_signer,
                             receipts_to_partial_voucher(allocation_id, allocation_signer,
                                                         voucher_signer, data))
    /\ UNCHANGED <<data, partial_vouchers, pool_vars>>

VoucherNext ==
    \/ PushReceipt
    \/ AppendByte
    \/ DropLastByte
    \/ SwapAdjacent
    \/ AlterSignatureByte
    \/ VerifyReceipts
    \/ ReceiptsToVoucher
    \/ ReceiptsToPartialVoucher

VoucherSpec == Init /\ [][VoucherNext]_vars

(***************************************************************************)
(* From the pool to the voucher, as tests::vouchers goes: the commitments  *)
(* that are out are sorted, stripped to their receipt records and handed   *)
(* to receipts_to_voucher.                                                 *)
(***************************************************************************)
\* tests::receipts_from_borrows, line 240: b[52..67], the bytes the borrows
\* are sorted by
sort_key(borrow) ==
    SubSeq(borrow, SizeOfAddress + SizeOfU256 + 1,
                   SizeOfAddress + SizeOfU256 + SizeOfReceiptId)

\* a borrow put into sorted borrows, behind those whose key is not greater
RECURSIVE insert_by_key(_, _)
insert_by_key(sorted, borrow) ==
    IF sorted = <<>> THEN <<borrow>>
    ELSE LET greatest == sorted[Len(sorted)]
         IN  IF array_lt(sort_key(borrow), sort_key(greatest), 1)
             THEN Append(insert_by_key(SubSeq(sorted, 1, Len(sorted) - 1), borrow),
                         greatest)
             ELSE Append(sorted, borrow)

\* Vec::sort_by_key, a stable sort
RECURSIVE sort_by_key(_)
sort_by_key(list) ==
    IF list = <<>> THEN <<>>
    ELSE insert_by_key(sort_by_key(SubSeq(list, 1, Len(list) - 1)), list[Len(list)])

\* tests::receipts_from_borrows, line 243: borrow[20..132].  Where the 65
\* bytes cut out for the signature are those of the signature in the
\* commitment, they are taken as they are; where the cut begins `shift` bytes
\* before it, the first slot says which 64 bytes these are: the bytes before
\* the signature and then the signature's own, less its last.
record_of(borrow) ==
    LET first == SizeOfAddress + VOUCHER_SIGNATURE_RANGE.start
        shift == SIGNATURE_RANGE.start - first
    IN  IF shift = 0 THEN SubSeq(borrow, SizeOfAddress + 1, SizeOfAddress + SIZE)
        ELSE SubSeq(borrow, SizeOfAddress + 1, first)
               \o << [ before |-> SubSeq(borrow, first + 1, SIGNATURE_RANGE.start),
                       then |-> borrow[SIGNATURE_RANGE.start + 1] ] >>
               \o [i \in 1..(SizeOfSignature - 1) |-> 0]

\* the records of borrows one after another
RECURSIVE serialize(_)
serialize(list) ==
    IF list = <<>> THEN <<>>
    ELSE record_of(Head(list)) \o serialize(Tail(list))

\* tests::receipts_from_borrows
receipts_from_borrows(list) == serialize(sort_by_key(list))

\* the commitments of a transfer that are out, in order of issue
RECURSIVE outstanding_from(_, _)
outstanding_from(vector_transfer_id, k) ==
    IF k > Len(borrows) THEN <<>>
    ELSE ( IF IdOf(borrows[k]) = vector_transfer_id /\ borrows[k].released = 0
           THEN <<borrows[k].bytes>> ELSE <<>> )
           \o outstanding_from(vector_transfer_id, k + 1)

\* the Address a caller has for a transfer: an Address has 20 bytes, the first
\* 20 of the id in the commitment
address_of(vector_transfer_id) == SubSeq(vector_transfer_id, 1, SizeOfAddress)

\* tests::vouchers, lines 121-133: the commitments that are out for one
\* transfer are redeemed
Redeem ==
    /\ returned = NoCall
    /\ \E vector_transfer_id \in TransferIds :
          LET allocation_id == address_of(vector_transfer_id)
              allocation_signer == from_secret_key(SignerOf(vector_transfer_id))
              receipts == receipts_from_borrows(outstanding_from(vector_transfer_id, 1))
          IN  /\ receipts # <<>>
              /\ data' = receipts
              /\ returned' = Returned("receipts_to_voucher", allocation_id,
                                 allocation_signer,
                                 receipts_to_voucher(allocation_id, allocation_signer,
                                                     test_signer, receipts))
    /\ UNCHANGED <<partial_vouchers, pool_vars>>

\* a call on the pool, as long as nothing has been redeemed
PoolCall == returned = NoCall /\ Next

RedeemNext ==
    \/ PoolCall
    \/ Redeem

RedeemSpec == Init /\ [][RedeemNext]_vars

(***************************************************************************)
(* Partial vouchers, as tests::partial_vouchers_combine goes: the receipts *)
(* of one allocation are collected in ascending order, parts of them are   *)
(* made partial vouchers, and a list of partial vouchers is combined.      *)
(***************************************************************************)
\* the allocation the first receipt of the data was signed for
AllocationOf(bytes) ==
    SubSeq(Receipt(bytes, 0).signature[1].message.keccak, 1, SizeOfAddress)

\* records from..to of the data
Chunk(bytes, from, to) == SubSeq(bytes, (from - 1) * SIZE + 1, to * SIZE)

\* the partial voucher is as receipts_to_partial_voucher made it
AsMade(partial_voucher) ==
    LET signature == partial_voucher.voucher.signature
    IN  signature[1].message.keccak
          = partial_voucher.voucher.allocation_id
              \o to_be_bytes(partial_voucher.voucher.fees)
              \o partial_voucher.receipt_id_min
              \o partial_voucher.receipt_id_max

\* tests::create_receipts: one more receipt of the allocation, its id above
\* those collected
CollectReceipt ==
    /\ returned = NoCall
    /\ partial_vouchers = <<>>
    /\ Count(data) < MaxReceipts
    /\ \E allocation_id \in Allocations, fee \in Fees, id \in ReceiptIds :
          /\ IF data = <<>> THEN TRUE
             ELSE /\ allocation_id = AllocationOf(data)
                  /\ array_lt(Receipt(data, Count(data) - 1).id, id, 1)
          /\ data' = data \o signed_receipt(allocation_id, fee, id, test_signer)
    /\ UNCHANGED <<returned, partial_vouchers, pool_vars>>

\* tests::partial_vouchers_combine, lines 200-212: a part of the receipts is
\* made a partial voucher, which joins the list
TakePartialVoucher ==
    /\ returned = NoCall
    /\ Len(partial_vouchers) < MaxReceipts
    /\ Count(data) > 0
    /\ \A k \in 1..Len(partial_vouchers) : AsMade(partial_vouchers[k])
    /\ \E from \in 1..Count(data) :
          \E to \in from..Count(data) :
             LET result == receipts_to_partial_voucher(AllocationOf(data),
                               from_secret_key(test_signer), test_signer,
                               Chunk(data, from, to))
             IN  /\ result.ok
                 /\ partial_vouchers' = Append(partial_vouchers, result.value)
    /\ UNCHANGED <<data, returned, pool_vars>>

\* the fees or a limit of the range of a partial voucher is changed after it
\* was signed
AlterPartialVoucher ==
    /\ returned = NoCall
    /\ Len(partial_vouchers) > 0
    /\ \A k \in 1..Len(partial_vouchers) : AsMade(partial_vouchers[k])
    /\ \E k \in 1..Len(partial_vouchers) :
          \/ \E fees \in Fees \ {partial_vouchers[k].voucher.fees} :
                partial_vouchers' = [partial_vouchers EXCEPT ![k].voucher.fees = fees]
          \/ \E id \in ReceiptIds \ {partial_vouchers[k].receipt_id_min} :
                partial_vouchers' = [partial_vouchers EXCEPT ![k].receipt_id_min = id]
          \/ \E id \in ReceiptIds \ {partial_vouchers[k].receipt_id_max} :
                partial_vouchers' = [partial_vouchers EXCEPT ![k].receipt_id_max = id]
    /\ UNCHANGED <<data, returned, pool_vars>>

CombinePartialVouchers ==
    /\ returned = NoCall
    /\ \E allocation_id \in Allocations, voucher_signer \in Keys :
          returned' = Returned("combine_partial_vouchers", allocation_id,
                         from_secret_key(voucher_signer),
                         combine_partial_vouchers(allocation_id, voucher_signer,
                                                  partial_vouchers))
    /\ UNCHANGED <<data, partial_vouchers, pool_vars>>

CombineNext ==
    \/ CollectReceipt
    \/ TakePartialVoucher
    \/ AlterPartialVoucher
    \/ CombinePartialVouchers

CombineSpec == Init /\ [][CombineNext]_vars

(***************************************************************************)
(* Vocabulary of the properties.                                           *)
(***************************************************************************)
\* the pool holds a transfer with this id
Holds(pool, id) == \E i \in 1..Len(pool) : pool[i].vector_transfer_id = id

\* where the pool holds it
At(pool, id) == CHOOSE i \in 1..Len(pool) : pool[i].vector_transfer_id = id

\* the step is a call of commit that returned a commitment
Committed == last'.op = "commit" /\ last'.ok

\* the step is a call of commit that returned a failure
CommitFailed == last'.op = "commit" /\ ~last'.ok

\* the step is a call of release with this outcome
Released(status) == last'.op = "release" /\ borrows'[last'.k].status = status

\* every transfer but the one at i is as it was
OthersUnchanged(i) ==
    /\ Len(transfers') = Len(transfers)
    /\ \A j \in 1..Len(transfers) : j # i => transfers'[j] = transfers[j]

\* the transfer at i is as it was, collateral and cache aside
RestUnchanged(i) ==
    /\ transfers'[i].prev_receipt_id = transfers[i].prev_receipt_id
    /\ transfers'[i].signer = transfers[i].signer
    /\ transfers'[i].vector_transfer_id = transfers[i].vector_transfer_id

(***************************************************************************)
(* Selection of the transfer.                                              *)
(***************************************************************************)
\* the transfer has a receipt to give: one in its cache, or an id left to mint
HasReceipt(transfer) ==
    \/ Len(transfer.receipt_cache) > 0
    \/ transfer.prev_receipt_id # [hi |-> LimbBase - 1, lo |-> LimbBase - 1]

\* C1: a commit that succeeds draws from the transfer its commitment names,
\* whose collateral covers the locked payment and is the least among the
\* collaterals that cover it; when some transfer's collateral is exactly the
\* locked payment, the transfer drawn from has exactly that collateral, and
\* the commit succeeds (as long as the transfers have receipts to give).
C1_CommitDrawsFromLeastSufficient ==
    [][ /\ Committed =>
             LET locked_payment == last'.amount
                 id == IdOf(borrows'[last'.k])
             IN  /\ Holds(transfers, id)
                 /\ LET i == At(transfers, id)
                    IN  /\ transfers[i].collateral >= locked_payment
                        /\ transfers'[i].collateral
                             = transfers[i].collateral - locked_payment
                        /\ \A j \in 1..Len(transfers) :
                             transfers[j].collateral >= locked_payment
                               => transfers[i].collateral <= transfers[j].collateral
                        /\ (\E j \in 1..Len(transfers) :
                               transfers[j].collateral = locked_payment)
                             => transfers[i].collateral = locked_payment
        /\ ( /\ last'.op = "commit"
             /\ \E j \in 1..Len(transfers) : transfers[j].collateral = last'.amount
             /\ \A j \in 1..Len(transfers) : HasReceipt(transfers[j]) )
             => last'.ok
      ]_vars

\* a commit has just drawn from the smaller of two collaterals that both
\* covered the locked payment
C1_Witness ==
    /\ last.op = "commit" /\ last.ok
    /\ \E i, j \in 1..Len(transfers) :
          /\ transfers[i].vector_transfer_id = last.id
          /\ j # i
          /\ last.amount > 0
          /\ transfers[i].collateral + last.amount < transfers[j].collateral

\* C2: commit fails whenever no single transfer has collateral for the locked
\* payment, also when the collaterals together would cover it, and
\* has_collateral_for is false of the same pool and payment.
C2_NoPoolingOfCollateral ==
    [][ ( /\ last'.op = "commit"
          /\ \A i \in 1..Len(transfers) : transfers[i].collateral < last'.amount )
          => /\ ~last'.ok
             /\ ~has_collateral_for(transfers, last'.amount)
             /\ transfers' = transfers
      ]_vars

\* a commit has just failed on two transfers that together had the collateral
C2_Witness ==
    /\ last.op = "commit" /\ ~last.ok
    /\ Len(transfers) = 2
    /\ transfers[1].collateral < last.amount
    /\ transfers[2].collateral < last.amount
    /\ transfers[1].collateral + transfers[2].collateral >= last.amount

(***************************************************************************)
(* commit                                                                  *)
(***************************************************************************)
\* C3: a commit that returns a failure leaves every transfer as it was.
C3_FailedCommitChangesNothing ==
    [][ CommitFailed => transfers' = transfers ]_vars

\* C4: a commit that succeeds takes the locked payment from the collateral of
\* one transfer, which covered it, and leaves every other transfer as it was;
\* no collateral is ever negative.
C4_CommitDebitsOneTransfer ==
    [][ /\ \A j \in 1..Len(transfers') : transfers'[j].collateral >= 0
        /\ Committed =>
             \E i \in 1..Len(transfers) :
                /\ transfers[i].collateral >= last'.amount
                /\ transfers'[i].collateral = transfers[i].collateral - last'.amount
                /\ OthersUnchanged(i)
      ]_vars

\* a commit has just locked a payment on one of two transfers
C4_Witness ==
    /\ last.op = "commit" /\ last.ok
    /\ last.amount > 0
    /\ Len(transfers) = 2

(***************************************************************************)
(* release                                                                 *)
(***************************************************************************)
\* C5: release with Success, for a transfer the pool holds, appends to the
\* cache of that transfer the receipt of the commitment with the whole payment
\* amount unlocked, and changes neither its collateral nor any other transfer.
C5_ReleaseSuccess ==
    [][ ( Released("Success") /\ Holds(transfers, last'.id) ) =>
          LET borrow == borrows[last'.k]
              i == At(transfers, IdOf(borrow))
          IN  /\ transfers'[i].receipt_cache
                   = Append(transfers[i].receipt_cache,
                            PooledReceipt(borrow.receipt.unlocked_payment
                                            + borrow.locked_payment,
                                          borrow.receipt.receipt_id))
              /\ transfers'[i].collateral = transfers[i].collateral
              /\ RestUnchanged(i)
              /\ OthersUnchanged(i)
      ]_vars

\* a commitment written on a recycled receipt has just been released as Success
C5_Witness ==
    /\ last.op = "release"
    /\ borrows[last.k].status = "Success"
    /\ Holds(transfers, last.id)
    /\ borrows[last.k].locked_payment > 0
    /\ borrows[last.k].receipt.unlocked_payment > 0

\* C6: release with Failure, for a transfer the pool holds, returns the locked
\* payment to the collateral of that transfer and appends to its cache the
\* receipt as it was before the commit.
C6_ReleaseFailure ==
    [][ ( Released("Failure") /\ Holds(transfers, last'.id) ) =>
          LET borrow == borrows[last'.k]
              i == At(transfers, IdOf(borrow))
          IN  /\ transfers'[i].collateral
                   = transfers[i].collateral + borrow.locked_payment
              /\ transfers'[i].receipt_cache
                   = Append(transfers[i].receipt_cache, borrow.receipt)
              /\ RestUnchanged(i)
              /\ OthersUnchanged(i)
      ]_vars

\* two payments were locked on one transfer and the first has just been
\* released as Failure: its payment is back and its receipt has nothing unlocked
C6_Witness ==
    /\ last.op = "release" /\ last.k = 1
    /\ Len(borrows) = 2
    /\ borrows[1].status = "Failure" /\ borrows[1].released = 1
    /\ borrows[2].released = 0
    /\ borrows[1].locked_payment > 0 /\ borrows[2].locked_payment > 0
    /\ Len(transfers) = 1
    /\ IdOf(borrows[1]) = transfers[1].vector_transfer_id
    /\ IdOf(borrows[2]) = transfers[1].vector_transfer_id
    /\ transfers[1].collateral = MaxCollateral - borrows[2].locked_payment
    /\ transfers[1].receipt_cache = <<PooledReceipt(0, borrows[1].receipt.receipt_id)>>

\* C7: release with Unknown leaves the pool as it was.
C7_ReleaseUnknown ==
    [][ Released("Unknown") => transfers' = transfers ]_vars

\* a commitment with a locked payment, for a transfer the pool holds, has just
\* been released as Unknown
C7_Witness ==
    /\ last.op = "release"
    /\ borrows[last.k].status = "Unknown"
    /\ borrows[last.k].locked_payment > 0
    /\ Holds(transfers, last.id)

\* C8: release of a commitment for a transfer the pool does not hold leaves
\* the pool as it was, whatever the outcome.
C8_ReleaseForAbsentTransfer ==
    [][ \A status \in QueryStatus :
          ( Released(status) /\ ~Holds(transfers, last'.id) )
            => transfers' = transfers
      ]_vars

\* a commitment with a locked payment has just been released as Failure after
\* its transfer was removed, the pool holding another transfer
C8_Witness ==
    /\ last.op = "release"
    /\ borrows[last.k].status = "Failure"
    /\ borrows[last.k].locked_payment > 0
    /\ ~Holds(transfers, last.id)
    /\ Len(transfers) = 1

\* C9: the release of a commitment that was out when its transfer was removed
\* raises no collateral and adds no receipt to a cache.
C9_ForfeitedForGood ==
    [][ ( last'.op = "release" /\ borrows[last'.k].forfeited ) =>
          /\ Len(transfers') = Len(transfers)
          /\ \A i \in 1..Len(transfers) :
                /\ transfers'[i].collateral <= transfers[i].collateral
                /\ Len(transfers'[i].receipt_cache) <= Len(transfers[i].receipt_cache)
      ]_vars

(***************************************************************************)
(* add_transfer                                                            *)
(***************************************************************************)
\* C10: add_transfer with an id the pool holds leaves the pool as it was, and
\* the pool never holds two transfers with one id.
C10_AddTransferIdempotent ==
    [][ /\ ( last'.op = "add_transfer" /\ Holds(transfers, last'.id) )
             => transfers' = transfers
        /\ \A i, j \in 1..Len(transfers') :
             transfers'[i].vector_transfer_id = transfers'[j].vector_transfer_id
               => i = j
      ]_vars

\* add_transfer has just been called with the id of a transfer the pool holds,
\* which has a receipt in its cache, and with another collateral
C10_Witness ==
    /\ last.op = "add_transfer"
    /\ \E i \in 1..Len(transfers) :
          /\ transfers[i].vector_transfer_id = last.id
          /\ transfers[i].collateral # last.amount
          /\ Len(transfers[i].receipt_cache) > 0

(***************************************************************************)
(* remove_transfer                                                         *)
(***************************************************************************)
\* the transfers of a pool, whatever their order
TransfersOf(pool) == {pool[i] : i \in 1..Len(pool)}

\* C11: remove_transfer takes out of the pool the transfer with the id, cache
\* and all, and leaves every other transfer as it was (its place in the vector
\* aside); it leaves the pool as it was when the pool does not hold the id; and
\* a commit on the pool after the removal succeeds only if one of the other
\* transfers covers the payment, and then names one of them.
C11_RemoveTransfer ==
    [][ last'.op = "remove_transfer" =>
          LET id == last'.id
          IN  /\ ~Holds(transfers', id)
              /\ TransfersOf(transfers')
                   = {t \in TransfersOf(transfers) : t.vector_transfer_id # id}
              /\ Len(transfers')
                   = Len(transfers) - (IF Holds(transfers, id) THEN 1 ELSE 0)
              /\ ~Holds(transfers, id) => transfers' = transfers
              /\ \A locked_payment \in LockedPayments :
                    LET result == commit(transfers', locked_payment, 0)
                    IN  /\ has_collateral_for(transfers', locked_payment)
                             <=> \E t \in TransfersOf(transfers) :
                                    /\ t.vector_transfer_id # id
                                    /\ t.collateral >= locked_payment
                        /\ result.ok =>
                             Slice(result.value, VECTOR_TRANSFER_ID_RANGE) # id
      ]_vars

\* the first of two transfers, which had a receipt returned to its cache, has
\* just been removed, and the other transfer is the one left
C11_Witness ==
    /\ last.op = "remove_transfer"
    /\ Len(transfers) = 1
    /\ transfers[1].vector_transfer_id # last.id
    /\ \E k \in 1..Len(borrows) :
          /\ IdOf(borrows[k]) = last.id
          /\ borrows[k].released = 1
          /\ borrows[k].status \in {"Success", "Failure"}

(***************************************************************************)
(* Accounts of one transfer.  They are kept for a transfer that was         *)
(* installed once and has been in the pool since, and while the caller has *)
(* given each of its commitments to release at most once.                  *)
(***************************************************************************)
\* the commitments issued for the transfer
BorrowsOf(id) == {k \in 1..Len(borrows) : IdOf(borrows[k]) = id}

\* the sum over the commitments of the transfer of what `amounts` gives for
\* each of them
SumOf(id, amounts) ==
    sum_from([k \in 1..Len(borrows) |-> IF k \in BorrowsOf(id) THEN amounts[k] ELSE 0], 1)

\* the locked payments of the commitments with one of the statuses
Locked(statuses) ==
    [k \in 1..Len(borrows) |->
       IF borrows[k].status \in statuses THEN borrows[k].locked_payment ELSE 0]

\* what was unlocked on the receipts of the commitments with one of the statuses
\* before they were committed
CarriedAway(statuses) ==
    [k \in 1..Len(borrows) |->
       IF borrows[k].status \in statuses
       THEN borrows[k].receipt.unlocked_payment ELSE 0]

\* installed once, in the pool, each commitment released at most once
InOrder(id) ==
    /\ installed[id].state = "once"
    /\ Holds(transfers, id)
    /\ \A k \in BorrowsOf(id) : borrows[k].released <= 1

\* every commitment of the transfer has been released, each once, with one of
\* the statuses
AllReleased(id, statuses) ==
    /\ InOrder(id)
    /\ \A k \in BorrowsOf(id) :
          borrows[k].released = 1 /\ borrows[k].status \in statuses

\* C12 as stated: once every commitment of a transfer has been released, as
\* Success or as Unknown, the unlocked payments in its cache add up to the
\* locked payments of the commitments released as Success.
C12_LockedEqualsUnlocked ==
    \A id \in TransferIds :
       AllReleased(id, {"Success", "Unknown"}) =>
          unlocked_payments(transfers[At(transfers, id)].receipt_cache)
            = SumOf(id, Locked({"Success"}))

\* C12 amended: with every commitment released as Success the unlocked
\* payments in the cache add up to the locked payments of all commits;
\* with some released as Unknown they fall short of the locked payments
\* released as Success by what had been unlocked on the forgotten receipts;
\* and the collateral is at most what was installed less every locked payment
\* that was not released as Failure, those released as Unknown included.
C12_UnlockedIsLowerBound ==
    \A id \in TransferIds :
       InOrder(id) =>
          LET transfer == transfers[At(transfers, id)]
              unlocked == unlocked_payments(transfer.receipt_cache)
          IN  /\ unlocked + SumOf(id, CarriedAway({"Locked", "Unknown"}))
                   = SumOf(id, Locked({"Success"}))
              /\ unlocked <= SumOf(id, Locked({"Success"}))
              /\ AllReleased(id, {"Success"}) =>
                   unlocked = SumOf(id, Locked({"Success", "Locked", "Unknown", "Failure"}))
              /\ transfer.collateral + SumOf(id, Locked({"Success", "Locked", "Unknown"}))
                   <= installed[id].collateral

\* a payment was unlocked on a receipt, the receipt was committed again and
\* that commitment has been released as Unknown
C12_Witness ==
    /\ Len(borrows) = 2
    /\ AllReleased(IdOf(borrows[1]), {"Success", "Unknown"})
    /\ IdOf(borrows[2]) = IdOf(borrows[1])
    /\ borrows[1].status = "Success" /\ borrows[1].locked_payment > 0
    /\ borrows[2].status = "Unknown" /\ borrows[2].locked_payment > 0
    /\ borrows[2].receipt.unlocked_payment > 0

\* the whole payment amounts (what was unlocked before and what was locked) of
\* the commitments picked out
TotalFee(picked) ==
    [k \in 1..Len(borrows) |->
       IF k \in picked
       THEN borrows[k].receipt.unlocked_payment + borrows[k].locked_payment ELSE 0]

\* C13: for a transfer that was installed once and is in the pool, its
\* collateral, the unlocked payments in its cache, the payment amounts of its
\* commitments that are still out and the payment amounts of those released as
\* Unknown add up to the collateral it was installed with.
C13_ValueConserved ==
    \A id \in TransferIds :
       ( installed[id].state = "once" /\ Holds(transfers, id) ) =>
          LET transfer == transfers[At(transfers, id)]
              out == {k \in BorrowsOf(id) : borrows[k].released = 0}
              unknown == {k \in BorrowsOf(id) :
                            borrows[k].released > 0 /\ borrows[k].status = "Unknown"}
          IN  transfer.collateral
                + unlocked_payments(transfer.receipt_cache)
                + SumOf(id, TotalFee(out))
                + SumOf(id, TotalFee(unknown))
              = installed[id].collateral

(***************************************************************************)
(* The life of a commitment.                                               *)
(***************************************************************************)
\* C14: the release of a commitment that has been released before, with
\* whatever outcome then and now, leaves the pool as it was.
C14_ReleasedOnce ==
    [][ ( last'.op = "release" /\ borrows[last'.k].released > 0 )
          => transfers' = transfers
      ]_vars

\* C15: commit never returns a commitment with the transfer id and the receipt
\* id of a commitment that has been released as Unknown.
C15_ForfeitedIdNotReissued ==
    [][ Committed =>
          \A k \in 1..Len(borrows) :
             borrows[k].unknown =>
                ~ /\ IdOf(borrows[k]) = IdOf(borrows'[last'.k])
                  /\ borrows[k].receipt.receipt_id
                       = borrows'[last'.k].receipt.receipt_id
      ]_vars

(***************************************************************************)
(* voucher.rs                                                              *)
(***************************************************************************)
\* a voucher function has been called on the data
CalledVoucher(ops) == returned.op \in ops

\* C16: on data whose length is not a multiple of the size of a record,
\* receipts_to_voucher and receipts_to_partial_voucher (and verify_receipts,
\* which they call) fail with InvalidData, whatever the records are.
C16_InvalidDataLength ==
    ( /\ CalledVoucher({"receipts_to_voucher", "receipts_to_partial_voucher",
                        "verify_receipts"})
      /\ Len(data) % SIZE # 0 )
      => returned.result = Err("InvalidData")

\* receipts_to_partial_voucher has failed on two records that would have been
\* accepted, with one byte after them
C16_Witness ==
    /\ CalledVoucher({"receipts_to_partial_voucher"})
    /\ Len(data) = 2 * SIZE + 1
    /\ verify_receipts(returned.allocation_id, returned.allocation_signer,
                       SubSeq(data, 1, 2 * SIZE)).ok
    /\ ~returned.result.ok

\* the number that the first i bytes read, the most significant byte first
RECURSIVE BigEndian(_, _)
BigEndian(bytes, i) ==
    IF i = 0 THEN 0
    ELSE LET rest == BigEndian(bytes, i - 1)
         IN  bytes[i] + (IF rest = 0 THEN 0 ELSE ByteBase * rest)

\* the receipt id of record k of the data, as a number
IdAt(bytes, k) ==
    BigEndian(Slice(SubSeq(bytes, (k - 1) * SIZE + 1, k * SIZE),
                    VOUCHER_RECEIPT_ID_RANGE), SizeOfReceiptId)

\* C17: verify_receipts fails with UnorderedReceipts on data of whole records
\* in which some record's receipt id is not greater than the one before it;
\* data it accepts has no receipt id twice; and when two records next to each
\* other of data it accepts change places, it fails with UnorderedReceipts.
C17_StrictlyAscendingIds ==
    [][ /\ ( /\ returned'.op = "verify_receipts"
              /\ Len(data') % SIZE = 0
              /\ \E k \in 1..(Count(data') - 1) : IdAt(data', k) >= IdAt(data', k + 1) )
              => returned'.result = Err("UnorderedReceipts")
        /\ ( returned'.op = "verify_receipts" /\ returned'.result.ok )
              => \A j, k \in 1..Count(data') : IdAt(data', j) = IdAt(data', k) => j = k
        /\ ( data' # data /\ \E k \in 1..(Count(data) - 1) : data' = swapped(data, k) )
              => \A allocation_id \in Allocations, key \in Keys :
                    verify_receipts(allocation_id, from_secret_key(key), data).ok
                      => verify_receipts(allocation_id, from_secret_key(key), data')
                           = Err("UnorderedReceipts")
      ]_vars

\* verify_receipts has failed with UnorderedReceipts on two records that it
\* accepts the other way round
C17_Witness ==
    /\ CalledVoucher({"verify_receipts"})
    /\ Count(data) = 2 /\ Len(data) = 2 * SIZE
    /\ IdAt(data, 1) > IdAt(data, 2)
    /\ verify_receipts(returned.allocation_id, returned.allocation_signer,
                       swapped(data, 1)).ok
    /\ returned.result = Err("UnorderedReceipts")

\* record k of the data
RecordAt(bytes, k) == SubSeq(bytes, (k - 1) * SIZE + 1, k * SIZE)

\* the first 64 bytes of the signature of record k are those of the key's
\* signature over the allocation id and the fee and receipt id of the record
SignedBy(bytes, k, allocation_id, key) ==
    LET record == RecordAt(bytes, k)
        signed == allocation_id \o Slice(record, FEE_RANGE)
                                \o Slice(record, VOUCHER_RECEIPT_ID_RANGE)
        signature == Slice(record, VOUCHER_SIGNATURE_RANGE)
    IN  /\ signature[1] = [key |-> key, message |-> [keccak |-> signed],
                           altered |-> FALSE]
        /\ \A i \in 2..(SizeOfSignature - 1) : signature[i] = 0

\* the ids of the records are strictly ascending
Ascending(bytes) ==
    \A k \in 1..(Count(bytes) - 1) : IdAt(bytes, k) < IdAt(bytes, k + 1)

\* every record is signed by the key for the allocation
AllSigned(bytes, allocation_id, key) ==
    \A k \in 1..Count(bytes) : SignedBy(bytes, k, allocation_id, key)

\* some record has a fee other than zero
SomeFee(bytes) ==
    \E k \in 1..Count(bytes) :
       \E i \in 1..SizeOfU256 : Slice(RecordAt(bytes, k), FEE_RANGE)[i] # 0

\* the step changes one byte of one signature, with an offset in `offsets`,
\* and nothing else of the data
Alters(offsets) ==
    /\ returned' = NoCall
    /\ Len(data') = Len(data)
    /\ \E k \in 1..Count(data), offset \in offsets :
          LET at == SignatureByte(k, offset)
          IN  /\ data'[at] # data[at]
              /\ data' = [data EXCEPT ![at] = data'[at]]

\* C18 as stated: verify_receipts accepts exactly the data whose ids are
\* strictly ascending and whose records are all signed by the key for the
\* allocation, and it rejects accepted data after a change of any one of the
\* 65 bytes of a signature.
C18_AcceptsIffOrderedAndSigned ==
    [][ /\ returned'.op = "verify_receipts" =>
             ( returned'.result.ok
                 <=> /\ Ascending(data')
                     /\ AllSigned(data', returned'.allocation_id,
                                  returned'.allocation_signer) )
        /\ Alters(0..(SizeOfSignature - 1)) =>
             \A allocation_id \in Allocations, key \in Keys :
                verify_receipts(allocation_id, from_secret_key(key), data).ok
                  => ~verify_receipts(allocation_id, from_secret_key(key), data').ok
      ]_vars

\* C18 amended: verify_receipts accepts exactly the data of whole records
\* whose ids are strictly ascending, whose records are all signed by the key
\* for the allocation, and whose fees are not all zero; and it rejects accepted
\* data after a change of any one of the first 64 bytes of a signature, while a
\* change of the 65th byte alone leaves its answer as it was.
C18_AcceptsIffOrderedSignedAndValued ==
    [][ /\ returned'.op = "verify_receipts" =>
             ( returned'.result.ok
                 <=> /\ Len(data') % SIZE = 0
                     /\ Ascending(data')
                     /\ AllSigned(data', returned'.allocation_id,
                                  returned'.allocation_signer)
                     /\ SomeFee(data') )
        /\ Alters(0..(SizeOfSignature - 2)) =>
             \A allocation_id \in Allocations, key \in Keys :
                verify_receipts(allocation_id, from_secret_key(key), data).ok
                  => ~verify_receipts(allocation_id, from_secret_key(key), data').ok
        /\ Alters({SizeOfSignature - 1}) =>
             \A allocation_id \in Allocations, key \in Keys :
                verify_receipts(allocation_id, from_secret_key(key), data')
                  = verify_receipts(allocation_id, from_secret_key(key), data)
      ]_vars

\* verify_receipts has rejected two records, the second with one of the first
\* 64 bytes of its signature changed, that it accepts with the byte as it was
C18_Witness ==
    /\ CalledVoucher({"verify_receipts"})
    /\ Len(data) = 2 * SIZE
    /\ ~returned.result.ok
    /\ \E offset \in 1..(SizeOfSignature - 2) :
          /\ data[SignatureByte(2, offset)] = 1
          /\ verify_receipts(returned.allocation_id, returned.allocation_signer,
                             [data EXCEPT ![SignatureByte(2, offset)] = 0]).ok

\* C19: data that verify_receipts accepts for one allocation id and a key is
\* rejected with InvalidSignature for any other allocation id and the same
\* key.
C19_BoundToAllocation ==
    ( /\ CalledVoucher({"verify_receipts"})
      /\ \E allocation_id \in Allocations \ {returned.allocation_id} :
            verify_receipts(allocation_id, returned.allocation_signer, data).ok )
      => returned.result = Err("InvalidSignature")

\* verify_receipts has been called for an allocation on two records that were
\* signed for the other allocation and are accepted for it
C19_Witness ==
    /\ CalledVoucher({"verify_receipts"})
    /\ Count(data) = 2
    /\ \E allocation_id \in Allocations \ {returned.allocation_id} :
          /\ AllSigned(data, allocation_id, returned.allocation_signer)
          /\ verify_receipts(allocation_id, returned.allocation_signer, data).ok
    /\ ~returned.result.ok

\* the fee of record k of the data when it is below the base, the base
\* itself when it is not
SmallFeeAt(bytes, k) ==
    LET fee == Slice(RecordAt(bytes, k), FEE_RANGE)
    IN  IF \E i \in 1..(SizeOfU256 - 1) : fee[i] # 0 THEN ByteBase
        ELSE fee[SizeOfU256]

\* the sum of the fees of the records when every fee is below the base and
\* the data has fewer records than the base: U256Max stands for a sum that
\* takes in the greatest fee, which nothing can be added to
SumOfFees(bytes) ==
    IF \E k \in 1..Count(bytes) : Slice(RecordAt(bytes, k), FEE_RANGE) = to_be_bytes(U256Max)
    THEN U256Max
    ELSE U256From(sum_from([k \in 1..Count(bytes) |-> SmallFeeAt(bytes, k)], 1))

\* C20: what verify_receipts returns on data it accepts is the sum of the fees
\* of the records, capped at the greatest U256; on data of whole, ordered and
\* signed records whose fees add up to zero it fails with NoValue; and on the
\* empty data receipts_to_voucher and receipts_to_partial_voucher fail with
\* NoValue as well.
C20_SaturatingSumAndNoValue ==
    /\ ( CalledVoucher({"verify_receipts"}) /\ returned.result.ok )
          => returned.result.value = SumOfFees(data)
    /\ ( /\ CalledVoucher({"verify_receipts", "receipts_to_voucher",
                            "receipts_to_partial_voucher"})
          /\ Len(data) % SIZE = 0
          /\ Ascending(data)
          /\ AllSigned(data, returned.allocation_id, returned.allocation_signer)
          /\ ~SomeFee(data) )
          => returned.result = Err("NoValue")
    /\ ( /\ CalledVoucher({"receipts_to_voucher", "receipts_to_partial_voucher"})
          /\ returned.result.ok )
          => LET voucher == IF returned.op = "receipts_to_voucher"
                            THEN returned.result.value
                            ELSE returned.result.value.voucher
             IN  voucher.fees = SumOfFees(data)
    /\ returned # NoCall => returned.result # Panic

\* verify_receipts has returned the greatest U256 for two records whose fees
\* are the greatest U256 and one
C20_Witness ==
    /\ CalledVoucher({"verify_receipts"})
    /\ returned.result = Ok(U256Max)
    /\ Count(data) = 2
    /\ Slice(RecordAt(data, 1), FEE_RANGE) = to_be_bytes(U256Max)
    /\ Slice(RecordAt(data, 2), FEE_RANGE) = to_be_bytes(U256From(1))

(***************************************************************************)
(* Redeeming the commitments of the pool.                                  *)
(***************************************************************************)
\* the commitments that are out for the transfer have been handed to
\* receipts_to_voucher
Redeemed(id) ==
    /\ steps > 0
    /\ returned.op = "receipts_to_voucher"
    /\ returned.allocation_id = address_of(id)

\* C21: the commitments that are out for a transfer, sorted and stripped to
\* their records, are accepted by receipts_to_voucher with the transfer's id
\* and the public key of its signer; the voucher names that id, and its fees
\* are the locked payments of all commits of the transfer when every earlier
\* commitment was released as Success and the cache is empty.
C21_CommitmentsRedeemable ==
    \A id \in TransferIds :
       Redeemed(id) =>
          /\ returned.result.ok
          /\ returned.result.value.allocation_id = address_of(id)
          /\ ( /\ InOrder(id)
               /\ \A k \in BorrowsOf(id) :
                     borrows[k].released = 0 \/ borrows[k].status = "Success"
               /\ transfers[At(transfers, id)].receipt_cache = <<>> )
             => returned.result.value.fees
                  = U256From(SumOf(id, Locked({"Locked", "Success"})))

(***************************************************************************)
(* combine_partial_vouchers                                                *)
(***************************************************************************)
\* combine_partial_vouchers has been called on the list of partial vouchers
Combined == CalledVoucher({"combine_partial_vouchers"})

\* some partial voucher of the list does not begin above the end of the one
\* before it
SomePairUnordered(list) ==
    \E k \in 1..(Len(list) - 1) :
       ~array_lt(list[k].receipt_id_max, list[k + 1].receipt_id_min, 1)

\* the partial voucher covers more than one receipt id
Wide(partial_voucher) ==
    array_lt(partial_voucher.receipt_id_min, partial_voucher.receipt_id_max, 1)

\* C22: a list in which some partial voucher does not begin above the end of
\* the one before it, in the order the caller gave, is rejected with
\* UnorderedPartialVouchers; so is a list with the same partial voucher twice.
C22_UnorderedListsRejected ==
    ( Combined /\ SomePairUnordered(partial_vouchers) )
       => returned.result = Err("UnorderedPartialVouchers")

\* the same partial voucher, of two receipts and as it was made, was given
\* twice and the list was rejected
C22_Witness ==
    /\ Combined
    /\ Len(partial_vouchers) = 2
    /\ partial_vouchers[1] = partial_vouchers[2]
    /\ Wide(partial_vouchers[1])
    /\ AsMade(partial_vouchers[1])
    /\ returned.allocation_id = partial_vouchers[1].voucher.allocation_id
    /\ returned.allocation_signer = from_secret_key(test_signer)
    /\ returned.result = Err("UnorderedPartialVouchers")

\* min <= max in every partial voucher, and each begins above the end of the
\* one before it
RangesValid(list) ==
    /\ \A k \in 1..Len(list) :
          ~array_lt(list[k].receipt_id_max, list[k].receipt_id_min, 1)
    /\ ~SomePairUnordered(list)

\* C23: a list of partial vouchers passes the range check exactly when min <=
\* max in each of them and each begins above the end of the one before it; a
\* partial voucher of one receipt (min = max) has a valid range.
C23_RangeCheck ==
    ( Combined /\ Len(partial_vouchers) > 0 )
       => ( returned.result # Err("UnorderedPartialVouchers")
              <=> RangesValid(partial_vouchers) )

\* the list is made of the partial vouchers of parts of the data that follow
\* one another and cover it
RECURSIVE Covers(_, _)
Covers(list, bytes) ==
    IF list = <<>> THEN bytes = <<>>
    ELSE \E n \in 1..Count(bytes) :
            LET part == receipts_to_partial_voucher(AllocationOf(bytes),
                            from_secret_key(test_signer), test_signer,
                            Chunk(bytes, 1, n))
            IN  /\ part.ok
                /\ part.value = Head(list)
                /\ Covers(Tail(list), Chunk(bytes, n + 1, Count(bytes)))

\* C24: the partial vouchers of the parts of a valid buffer, whatever the
\* sizes of the parts, combine to the voucher receipts_to_voucher makes of the
\* whole buffer: the same allocation id, fees and signature.
C24_CombineEqualsWhole ==
    ( /\ Combined
      /\ data # <<>>
      /\ returned.allocation_id = AllocationOf(data)
      /\ returned.allocation_signer = from_secret_key(test_signer)
      /\ receipts_to_voucher(AllocationOf(data), from_secret_key(test_signer),
                             test_signer, data).ok
      /\ Covers(partial_vouchers, data) )
       => returned.result
            = receipts_to_voucher(AllocationOf(data), from_secret_key(test_signer),
                                  test_signer, data)

\* the signature of the partial voucher is the one of the key over the
\* allocation id, the fees and the limits of the range
ValidlySigned(partial_voucher, allocation_id, key) ==
    SubSeq(partial_voucher.voucher.signature, 1, SizeOfSignature - 1)
      = sign_ecdsa(keccak256(allocation_id
                               \o to_be_bytes(partial_voucher.voucher.fees)
                               \o partial_voucher.receipt_id_min
                               \o partial_voucher.receipt_id_max),
                   key)

\* some partial voucher of the list is not validly signed for the call
SomeNotSigned ==
    \E k \in 1..Len(partial_vouchers) :
       ~ValidlySigned(partial_vouchers[k], returned.allocation_id,
                      returned.allocation_signer)

\* C25 as stated: the call succeeds only if every partial voucher is validly
\* signed by the voucher signer for the allocation id of the call, and a
\* partial voucher that is not (altered after signing, issued for another
\* allocation, signed by another key) makes the call fail with
\* InvalidSignature.
C25_InvalidSignature ==
    Combined =>
       /\ returned.result.ok => ~SomeNotSigned
       /\ SomeNotSigned => returned.result = Err("InvalidSignature")

\* C25 amended: the call succeeds only if every partial voucher is validly
\* signed; one that is not makes the call fail, with
\* UnorderedPartialVouchers where the limits of the ranges in a row are not
\* strictly ascending, and with InvalidSignature where they are.
C25_RangeCheckThenSignature ==
    Combined =>
       /\ returned.result.ok => ~SomeNotSigned
       /\ SomeNotSigned =>
            returned.result =
               IF all_ascending(range_limits(partial_vouchers))
               THEN Err("InvalidSignature")
               ELSE Err("UnorderedPartialVouchers")

\* a partial voucher whose range was widened after signing, in a list that
\* passes the range check, was refused for its signature
C25_Witness ==
    /\ Combined
    /\ \E k \in 1..Len(partial_vouchers) : ~AsMade(partial_vouchers[k])
    /\ all_ascending(range_limits(partial_vouchers))
    /\ returned.allocation_id = partial_vouchers[1].voucher.allocation_id
    /\ returned.allocation_signer = from_secret_key(test_signer)
    /\ returned.result = Err("InvalidSignature")

(***************************************************************************)
(* What commit signs.                                                      *)
(***************************************************************************)
\* what determines the signature in a commitment: the key and the digest
SignatureOf(commitment) == Slice(commitment, SIGNATURE_RANGE)[1]

\* C26: the signature in a commitment is the one of the signer of its
\* transfer over transfer id, payment amount and receipt id together; the
\* unlocked payment that follows the signature is not signed.
C26_SignsIdAmountAndReceiptId ==
    \A k \in 1..Len(borrows) :
       LET commitment == borrows[k].bytes
       IN  /\ SignatureOf(commitment).key = SignerOf(IdOf(borrows[k]))
           /\ SignatureOf(commitment).message
                = hash_bytes(SliceFromTo(commitment, VECTOR_TRANSFER_ID_RANGE.start,
                                         RECEIPT_ID_RANGE.end))

\* lib.rs, domain_separator: the chains a deployment can be on
ChainIds == {1, 2}

\* lib.rs, domain_separator: the separator of a chain, a digest of the domain,
\* opaque
domain_separator(chain_id) == bytes32(ByteBase - chain_id)

\* C27: what is hashed for the signature of a commitment begins with the
\* domain separator of the deployment, so that the same fields signed for two
\* deployments give two messages.
C27_DomainSeparated ==
    \E chain_id \in ChainIds :
       \A k \in 1..Len(borrows) :
          SubSeq(SignatureOf(borrows[k].bytes).message.sha3, 1, SizeOfBytes32)
            = domain_separator(chain_id)

(***************************************************************************)
(* The receipts of a transfer.                                             *)
(***************************************************************************)
\* the receipt ids in the cache of the transfer, in their order
CachedIds(id) ==
    LET receipt_cache == transfers[At(transfers, id)].receipt_cache
    IN  [j \in 1..Len(receipt_cache) |-> receipt_cache[j].receipt_id]

\* the receipt ids of the commitments of the transfer from commitment k on that
\* have not been given to release
RECURSIVE OutIdsFrom(_, _)
OutIdsFrom(id, k) ==
    IF k > Len(borrows) THEN <<>>
    ELSE ( IF IdOf(borrows[k]) = id /\ borrows[k].released = 0
           THEN <<borrows[k].receipt.receipt_id>> ELSE <<>> )
           \o OutIdsFrom(id, k + 1)

\* no value occurs twice in the sequence
Distinct(sequence) ==
    \A i, j \in 1..Len(sequence) : i # j => sequence[i] # sequence[j]

\* C28: for every transfer in the pool, the receipt ids in its cache and the
\* receipt ids of its commitments that are out are pairwise distinct.
C28_ReceiptIdsDistinct ==
    \A id \in TransferIds :
       Holds(transfers, id) => Distinct(CachedIds(id) \o OutIdsFrom(id, 1))

\* the transfer a commit draws from, as it is before the call
Drawn == transfers[select_transfer(transfers, last'.amount)]

\* the same transfer after the call
DrawnAfter == transfers'[select_transfer(transfers, last'.amount)]

\* the commitment the call returned, as the caller keeps it
Issued == borrows'[last'.k]

\* the receipt is in the cache once less than before, and every other receipt
\* as often as before
OneTaken(before, after, receipt) ==
    /\ Len(after) = Len(before) - 1
    /\ \A r \in {before[j] : j \in 1..Len(before)} :
          Cardinality({j \in 1..Len(after) : after[j] = r})
            = Cardinality({j \in 1..Len(before) : before[j] = r})
                - (IF r = receipt THEN 1 ELSE 0)

\* a < b of receipt ids
ReceiptIDLess(a, b) == a.hi < b.hi \/ (a.hi = b.hi /\ a.lo < b.lo)

\* C29: a commit on a transfer whose cache is not empty takes exactly one
\* receipt out of the cache, mints none, and writes the commitment with what
\* was unlocked on that receipt; on a transfer whose cache is empty it mints
\* a receipt with nothing unlocked, whose id is the one after the last the
\* transfer minted: never 0, and above the id of every commitment issued for
\* the transfer since it was installed.
C29_ReuseBeforeMint ==
    [][ Committed =>
          IF Len(Drawn.receipt_cache) > 0
          THEN /\ OneTaken(Drawn.receipt_cache, DrawnAfter.receipt_cache, Issued.receipt)
               /\ DrawnAfter.prev_receipt_id = Drawn.prev_receipt_id
               /\ from_little_endian(Slice(Issued.bytes, UNLOCKED_PAYMENT_RANGE))
                    = Issued.receipt.unlocked_payment
          ELSE /\ DrawnAfter.receipt_cache = <<>>
               /\ Issued.receipt.unlocked_payment = 0
               /\ from_little_endian(Slice(Issued.bytes, UNLOCKED_PAYMENT_RANGE)) = 0
               /\ Issued.receipt.receipt_id = checked_add_1(Drawn.prev_receipt_id)
               /\ DrawnAfter.prev_receipt_id = Issued.receipt.receipt_id
               /\ Issued.receipt.receipt_id # ReceiptIDZero
               /\ ReceiptIDLess(Drawn.prev_receipt_id, Issued.receipt.receipt_id)
               /\ installed[last'.id].state = "once" =>
                    \A k \in BorrowsOf(last'.id) :
                       ReceiptIDLess(borrows[k].receipt.receipt_id,
                                     Issued.receipt.receipt_id)
      ]_vars

\* a commit was made on a transfer with a receipt in its cache that had a
\* payment unlocked on it, and the commitment carries that receipt
C29_Witness ==
    /\ last.op = "commit" /\ last.ok
    /\ Len(borrows) = 2
    /\ borrows[1].status = "Success" /\ borrows[1].released = 1
    /\ borrows[2].receipt.receipt_id = borrows[1].receipt.receipt_id
    /\ borrows[2].receipt.unlocked_payment = borrows[1].locked_payment
    /\ borrows[2].receipt.unlocked_payment > 0
    /\ transfers[At(transfers, last.id)].receipt_cache = <<>>

\* C30: the payment amount of a commitment is what was unlocked on its
\* receipt and the locked payment together, and for a transfer that was
\* installed once and whose commitments were each given to release at most
\* once it is at most the collateral the transfer was installed with.
C30_TotalFeeWithinCollateral ==
    [][ Committed =>
          /\ from_little_endian(Slice(Issued.bytes, PAYMENT_AMOUNT_RANGE))
               = Issued.receipt.unlocked_payment + last'.amount
          /\ InOrder(last'.id) =>
               from_little_endian(Slice(Issued.bytes, PAYMENT_AMOUNT_RANGE))
                 <= installed[last'.id].collateral
      ]_vars

\* a commitment whose payment amount is the whole collateral the transfer was
\* installed with, part of it unlocked before and part of it locked now
C30_Witness ==
    /\ last.op = "commit" /\ last.ok
    /\ InOrder(last.id)
    /\ borrows[last.k].receipt.unlocked_payment > 0
    /\ borrows[last.k].locked_payment > 0
    /\ from_little_endian(Slice(borrows[last.k].bytes, PAYMENT_AMOUNT_RANGE))
         = installed[last.id].collateral

(***************************************************************************)
(* The wire formats.  src/src/format.rs is the format of the earlier       *)
(* interface, in which the caller serializes the BorrowedReceipt that      *)
(* borrow returned; it shares to_le_bytes with pool.rs.                    *)
(***************************************************************************)
SizeOfBytes16 == 16
SizeOfCompact == 64

\* release, lines 245-262: what release reads out of the bytes
release_decoder(bytes) ==
    LET payment_amount == from_little_endian(Slice(bytes, PAYMENT_AMOUNT_RANGE))
        unlocked_payment == from_little_endian(Slice(bytes, UNLOCKED_PAYMENT_RANGE))
    IN  [ vector_transfer_id |-> Slice(bytes, VECTOR_TRANSFER_ID_RANGE),
          payment_amount |-> payment_amount,
          locked_payment |-> payment_amount - unlocked_payment,
          receipt |-> PooledReceipt(unlocked_payment,
                         receipt_id_from_le_bytes(Slice(bytes, RECEIPT_ID_RANGE))) ]

\* format.rs, the struct deserialize_borrow_from_commitment_and_borrow builds
BorrowedReceipt(vector_app_id, locked_payment, pooled_receipt) ==
    [ vector_app_id |-> vector_app_id, locked_payment |-> locked_payment,
      pooled_receipt |-> pooled_receipt ]

\* format::hash_bytes: the separator is hashed before the bytes
format_hash_bytes(domain, bytes) == [sha3 |-> domain \o bytes]

\* format::payment_commitment: the bytes it appends to an empty dest
payment_commitment(borrow, secret_key, domain) ==
    LET payment_amount == borrow.locked_payment + borrow.pooled_receipt.unlocked_payment
        dest == borrow.vector_app_id
                  \o to_le_bytes(payment_amount)
                  \o borrow.pooled_receipt.receipt_id
        message == format_hash_bytes(domain, dest)
    IN  dest \o <<[key |-> secret_key, message |-> message]>>
             \o [i \in 1..(SizeOfCompact - 1) |-> 0]

\* format::serialize_payment_commitment_and_borrow
serialize_payment_commitment_and_borrow(borrow, secret_key, domain) ==
    payment_commitment(borrow, secret_key, domain) \o to_le_bytes(borrow.locked_payment)

\* deserialize that takes the payment amount for what was unlocked
deserialize_without_subtraction(bytes) ==
    IF Len(bytes) # 176 THEN Panic
    ELSE LET vector_app_id == Slice(bytes, Range(0, 32))
             payment_amount == from_little_endian(Slice(bytes, Range(32, 64)))
             receipt == Slice(bytes, Range(64, 80))
             locked_payment == from_little_endian(Slice(bytes, Range(144, 176)))
         IN  Ok(BorrowedReceipt(vector_app_id, locked_payment,
                                PooledReceipt(payment_amount, receipt)))

\* format::deserialize_borrow_from_commitment_and_borrow; the assert_eq on the
\* length panics
deserialize_borrow_from_commitment_and_borrow(bytes) ==
    IF Len(bytes) # 176 THEN Panic
    ELSE LET vector_app_id == Slice(bytes, Range(0, 32))
             payment_amount == from_little_endian(Slice(bytes, Range(32, 64)))
             receipt == Slice(bytes, Range(64, 80))
             locked_payment == from_little_endian(Slice(bytes, Range(144, 176)))
             unlocked_payment == payment_amount - locked_payment
         IN  Ok(BorrowedReceipt(vector_app_id, locked_payment,
                                PooledReceipt(unlocked_payment, receipt)))

\* format::tests::round_trip: the amounts of the test, 10000 and 199, and none
Amounts == {0, 199, 10000}

\* the borrows a caller can hold
BorrowedReceipts ==
    { BorrowedReceipt(vector_app_id, locked_payment,
                      PooledReceipt(unlocked_payment, bytes_n(id, SizeOfBytes16))) :
        vector_app_id \in TransferIds, locked_payment \in Amounts,
        unlocked_payment \in Amounts, id \in {1, ByteBase - 1} }

\* a borrow is serialized
Serialize ==
    /\ steps = 0
    /\ returned = NoCall
    /\ \E borrow \in BorrowedReceipts, secret_key \in Keys, chain_id \in ChainIds :
          /\ data' = serialize_payment_commitment_and_borrow(borrow, secret_key,
                         domain_separator(chain_id))
          /\ returned' = [op |-> "serialize_payment_commitment_and_borrow",
                          borrow |-> borrow]
    /\ UNCHANGED <<partial_vouchers, pool_vars>>

\* the serialized bytes are read back
Deserialize ==
    /\ returned.op = "serialize_payment_commitment_and_borrow"
    /\ returned' = [op |-> "deserialize_borrow_from_commitment_and_borrow",
                    borrow |-> returned.borrow,
                    result |-> deserialize_borrow_from_commitment_and_borrow(data)]
    /\ UNCHANGED <<data, partial_vouchers, pool_vars>>

FormatNext ==
    \/ PoolCall
    \/ Serialize
    \/ Deserialize

FormatSpec == Init /\ [][FormatNext]_vars

\* C31: the bytes commit returns read back, in release, as the transfer id,
\* the payment amount, the receipt id and the unlocked payment that commit
\* wrote, and release settles the locked payment and the receipt they give;
\* the bytes serialize_payment_commitment_and_borrow writes read back, in
\* deserialize_borrow_from_commitment_and_borrow, as the borrow serialized.
C31_RoundTrip ==
    [][ /\ Committed =>
             release_decoder(Issued.bytes)
               = [ vector_transfer_id |-> last'.id,
                   payment_amount |-> Issued.receipt.unlocked_payment + last'.amount,
                   locked_payment |-> last'.amount,
                   receipt |-> Issued.receipt ]
        /\ last'.op = "release" =>
             LET decoded == release_decoder(borrows[last'.k].bytes)
             IN  /\ decoded.receipt = borrows[last'.k].receipt
                 /\ decoded.locked_payment = borrows[last'.k].locked_payment
                 /\ transfers' =
                      IF Holds(transfers, decoded.vector_transfer_id)
                      THEN [transfers EXCEPT
                              ![At(transfers, decoded.vector_transfer_id)] =
                                 settle(@, decoded.receipt, decoded.locked_payment,
                                        borrows'[last'.k].status)]
                      ELSE transfers
        /\ returned'.op = "deserialize_borrow_from_commitment_and_borrow" =>
             returned'.result = Ok(returned'.borrow)
      ]_vars

\* a borrow with a payment of two bytes unlocked and one locked was
\* serialized and read back as it was
C31_Witness ==
    /\ returned.op = "deserialize_borrow_from_commitment_and_borrow"
    /\ returned.borrow.locked_payment = 199
    /\ returned.borrow.pooled_receipt.unlocked_payment = 10000
    /\ Len(data) = 176
    /\ returned.result = Ok(returned.borrow)

(***************************************************************************)
(* The recovery id.  RecoveryId::to_i32 gives 0, 1, 2 or 3; 2 and 3 are    *)
(* the ids of signatures whose r lies above the group order, which key and *)
(* digest decide.  In the calls above the id is 0 or 1; here it is drawn.  *)
(***************************************************************************)
RecoveryIds == 0..3

\* commit, lines 223-230: the match on the recovery id
commit_recovery_id(raw) ==
    CASE raw = 0 -> Ok(27)
      [] raw = 1 -> Ok(28)
      [] raw = 27 -> Ok(27)
      [] raw = 28 -> Ok(28)
      [] OTHER -> Panic

\* prelude::sign, lines 58-64: the match on the recovery id
sign_recovery_id(raw) ==
    CASE raw = 0 -> Ok(27)
      [] raw = 1 -> Ok(28)
      [] raw = 27 -> Ok(27)
      [] raw = 28 -> Ok(28)
      [] OTHER -> Err("InvalidRecoveryId")

\* prelude::sign, for the recovery id the library gave
sign_recovering(bytes, signer, raw) ==
    LET message == keccak256(bytes)
        recovery_id == sign_recovery_id(raw)
    IN  IF ~recovery_id.ok THEN recovery_id
        ELSE Ok(sign_ecdsa(message, signer) \o <<recovery_id.value>>)

\* ReceiptPool::commit, for the recovery id the library gave: the pool as the
\* call leaves it and what it returned, if it returned
commit_recovering(pool, locked_payment, index, raw) ==
    LET selected == select_transfer(pool, locked_payment)
    IN  IF selected = 0
        THEN [pool |-> pool, result |-> Err(InsufficientCollateral)]
        ELSE LET debited == debit(pool[selected], locked_payment)
                 taken == take_receipt(debited, index)
                 recovery_id == commit_recovery_id(raw)
                 written == commitment_bytes(taken.transfer, taken.receipt,
                                             locked_payment)
             IN  [ pool |-> [pool EXCEPT ![selected] = taken.transfer],
                   result |->
                      IF taken.err THEN Err(InsufficientCollateral)
                      ELSE IF ~recovery_id.ok THEN recovery_id
                      ELSE Ok([written EXCEPT ![SIGNATURE_RANGE.end] =
                                  recovery_id.value]) ]

\* a commit whose signature comes with the recovery id `raw`; the caller
\* keeps what it returned in `returned`
CommitRecovering ==
    /\ returned = NoCall
    /\ steps < MaxSteps
    /\ steps' = steps + 1
    /\ \E locked_payment \in LockedPayments, raw \in RecoveryIds :
          \E index \in Draws(transfers, locked_payment) :
             LET called == commit_recovering(transfers, locked_payment, index, raw)
             IN  /\ transfers' = called.pool
                 /\ last' = Called("commit", called.result.ok, <<>>, locked_payment, 0)
                 /\ returned' = [op |-> "commit", raw |-> raw,
                                 result |-> called.result]
    /\ UNCHANGED <<borrows, installed, data, partial_vouchers>>

\* prelude::sign on the message of a voucher, with the recovery id `raw`
SignRecovering ==
    /\ returned = NoCall
    /\ steps = 0
    /\ \E allocation_id \in Allocations, fees \in Fees, signer \in Keys,
          raw \in RecoveryIds :
          /\ data' = allocation_id \o to_be_bytes(fees)
          /\ returned' = [op |-> "sign", raw |-> raw,
                          result |-> sign_recovering(data', signer, raw)]
    /\ UNCHANGED <<partial_vouchers, pool_vars>>

SignNext ==
    \/ PoolCall
    \/ CommitRecovering
    \/ SignRecovering

SignSpec == Init /\ [][SignNext]_vars

\* C32: the signature of every commitment and every signature sign returns
\* ends in 27 or 28, 27 for the recovery id 0 and 28 for 1; a recovery id
\* that is neither is answered with a returned error, in commit and in sign,
\* never with a panic.
C32_RecoveryIdReported ==
    /\ \A k \in 1..Len(borrows) :
          borrows[k].bytes[SIGNATURE_RANGE.end] \in {27, 28}
    /\ returned.op \in {"commit", "sign"} =>
          /\ ( returned.result.ok /\ returned.raw \in {0, 1} ) =>
                returned.result.value[
                   IF returned.op = "commit" THEN SIGNATURE_RANGE.end
                   ELSE SizeOfSignature] = 27 + returned.raw
          /\ returned.raw \notin {0, 1, 27, 28} =>
                ~returned.result.ok /\ returned.result # Panic
====
